---- MODULE Spec2Model ----
(***************************************************************************)
(* Model of coinwatch's alert cycle (crypto_alert.py): main, check_alerts, *)
(* load_sent_alerts, save_sent_alerts and send_discord_alert, and of the   *)
(* --validate branch with validate_coins_config and validate_alert_config. *)
(* It also holds the range cache refresher (update_52w_stats.py:           *)
(* is_stats_stale and update_all_52w_stats), run as UpdaterSpec, and the   *)
(* gateway calls get_current_prices and get_ath_price, run as GatewaySpec. *)
(*                                                                         *)
(* Conventions of the model                                                *)
(*  - an optional value (Python None or a number) is a set with at most    *)
(*    one element: None == {}, Some(v) == {v};                             *)
(*  - prices are integers; a percentage is kept in hundredths of a percent *)
(*    (round(x, 2) of the code), and the comparisons the code makes on     *)
(*    unrounded floats are made exactly, by cross-multiplication;          *)
(*  - a score (effective price) is kept in hundredths of a currency unit;  *)
(*  - a dedup key f"{id}_{class}_{value}" is the tuple <<id, class, value>>*)
(***************************************************************************)
EXTENDS Integers, Sequences, FiniteSets, TLC

VARIABLES
    coins_config,   \* content of coins_config.json as load_coins_config returns it
    reset_alerts_daily, \* alert_config["reset_alerts_daily"]
    stats_52w,      \* content of 52w_stats.json as load_52w_stats returns it
    file,           \* the dedup-state file (alert_tracking_file)
    today,          \* date.today()
    pc,             \* position of the process in main / check_alerts
    dry_run,        \* '--dry-run' in sys.argv
    sent_alerts,    \* check_alerts: sent_alerts (the loaded dedup state)
    current_data,   \* check_alerts: current_data (the bulk price fetch result)
    idx,            \* number of entries of current_data the for loop has taken
    ath_data,       \* check_alerts: ath_data of the entry being processed
    potential_alerts,      \* check_alerts: potential_alerts
    triggered_ath_keys,    \* check_alerts: triggered_ath_keys
    triggered_price_keys,  \* check_alerts: triggered_price_keys
    alerts,         \* check_alerts: alerts (returned to main)
    new_sent_alerts,\* check_alerts: new_sent_alerts
    saveCalls,      \* calls of save_sent_alerts in this run
    posts,          \* requests.post calls in this run
    message,        \* the embed send_discord_alert built in this run
    logged,         \* the alerts send_discord_alert logged as [DRY RUN]
    delivery,       \* outcome of the webhook POST of this run: "none", "ok", "failed"
    athSeen,        \* history: entry index -> result of its get_ath_price call
    saveOutcome,    \* how the save_sent_alerts call of this run ended ("none": no call)
    fileAtStart,    \* history: the dedup-state file when this run started
    validated,      \* history: the configuration files a --validate run found, and
                    \* the errors it reported
    exit_status,    \* the status a --validate run passed to sys.exit (None: no such exit)
    sleepCalls,     \* history: the time.sleep(1.5) calls of check_alerts in this run
    no_webhook_return, \* history: main returned at the DISCORD_WEBHOOK_URL check
    \* update_52w_stats.py
    stats_file,     \* the range cache file (52w_stats.json) on disk
    u_pc,           \* position of the refresher in update_all_52w_stats
    u_idx,          \* number of coins the current pass has taken
    stats_data,     \* update_all_52w_stats: stats_data
    failed_coins,   \* update_all_52w_stats: failed_coins
    fetchLog,       \* history: the fetch_52w_high_low calls of this run, in order
    sleepLog,       \* history: the time.sleep calls of update_all_52w_stats, in order
    is_stale,       \* history: the last is_stats_stale call, its arguments and result
    statsSaveOutcome, \* history: how the save_52w_stats call of this run ended
                    \* ("none": no call)
    statsFileAtStart, \* history: the range cache file when this refresh started
    \* the gateway calls get_current_prices and get_ath_price
    g_call,         \* the call in progress: function and max_retries
    g_pc,           \* position inside the call
    attempt,        \* get_ath_price: attempt
    g_log,          \* history: the requests and sleeps of the call, in order
    g_result        \* what the call returned

alert_vars == <<coins_config, reset_alerts_daily, stats_52w, file, today, pc, dry_run,
          sent_alerts, current_data, idx, ath_data, potential_alerts,
          triggered_ath_keys, triggered_price_keys, alerts, new_sent_alerts,
          saveCalls, posts, message, logged, delivery, athSeen, saveOutcome,
          fileAtStart, validated, exit_status, sleepCalls, no_webhook_return>>

updater_vars == <<stats_file, u_pc, u_idx, stats_data, failed_coins, fetchLog, sleepLog,
                  is_stale, statsSaveOutcome, statsFileAtStart>>

gateway_vars == <<g_call, g_pc, attempt, g_log, g_result>>

vars == <<alert_vars, sleepCalls, no_webhook_return,
                   updater_vars, gateway_vars>>

-----------------------------------------------------------------------------
(* Bounds of the model *)

\* longest list the bulk price fetch returns
MaxSnap == 2
\* last calendar date of a behaviour (dates are 1..MaxDate)
MaxDate == 2

-----------------------------------------------------------------------------
(* Values *)

\* is_stats_stale: the default of max_age_days
DefaultMaxAgeDays == 7

None == {}
Some(v) == {v}

\* identifiers the configuration tracks, and one the API may return besides
Ids == {"bitcoin", "ethereum"}
Unlisted == "dogecoin"

\* current prices and all-time highs the API reports
Prices == {0, 55, 70}
AthPrices == {100}

NoCoin == [name |-> "", symbol |-> "", ath_thresholds |-> <<>>, price_alerts |-> <<>>]

\* a coins_config.json: "ok" is FALSE when load_coins_config returns None
CoinsA ==
    [ok |-> TRUE,
     coins |-> [i \in Ids |->
        IF i = "bitcoin"
        THEN [name |-> "Bitcoin", symbol |-> "BTC",
              ath_thresholds |-> <<30, 50>>, price_alerts |-> <<70, 60>>]
        ELSE [name |-> "Ethereum", symbol |-> "ETH",
              ath_thresholds |-> <<>>, price_alerts |-> <<60, 0>>]]]

\* a coins_config.json in which every coin has drawdown thresholds
CoinsB ==
    [CoinsA EXCEPT !.coins["ethereum"].ath_thresholds = <<30>>]

NoConfig == [ok |-> FALSE, coins |-> [i \in Ids |-> NoCoin]]

Configs == {CoinsA, NoConfig}

\* a 52w_stats.json as load_52w_stats returns it: the optional last_updated date
\* (a day number) and per identifier an optional {high_52w, low_52w}. The file
\* with data was refreshed seven days before date 1.
NoStats == [last_updated |-> None, coins |-> [i \in Ids \cup {Unlisted} |-> None]]
SomeStats == [last_updated |-> Some(-6),
              coins |-> [i \in Ids \cup {Unlisted} |->
                           IF i = "bitcoin" THEN Some([high_52w |-> 110, low_52w |-> 50])
                           ELSE None]]
StatsFiles == {NoStats, SomeStats}

\* the dedup-state file: missing, unparseable, or a {"date", "sent_alerts"} document
MissingFile == [status |-> "missing", date |-> 0, sent |-> {}]
CorruptFile == [status |-> "corrupt", date |-> 0, sent |-> {}]
Document(d, s) == [status |-> "ok", date |-> d, sent |-> s]

\* results of get_ath_price: None, a body without market_data/ath/usd, or a body
NoAth == [kind |-> "none", usd |-> 0]
MalformedAth == [kind |-> "malformed", usd |-> 0]
AthBody(a) == [kind |-> "ok", usd |-> a]
AthResults == {NoAth, MalformedAth} \cup {AthBody(a) : a \in AthPrices}

\* lists of entries with pairwise different identifiers, as /coins/markets returns
Entries == [id : Ids, current_price : Prices] \cup {[id |-> Unlisted, current_price |-> 55]}
Snapshots ==
    {s \in UNION {[1..n -> Entries] : n \in 0..MaxSnap} :
        \A i, j \in DOMAIN s : i # j => s[i].id # s[j].id}

-----------------------------------------------------------------------------
(* Arithmetic *)

\* the value of a present optional
Val(o) == CHOOSE v \in o : TRUE

\* n / d rounded to the nearest integer (d > 0), as round() and the format
\* specifications of the code round
RoundDiv(n, d) == (2 * n + d) \div (2 * d)

\* mutant of Pct: a negative percentage is clamped to zero
PctClamped(num, den) == IF num < 0 THEN 0 ELSE RoundDiv(num * 10000, den)

\* round(num / den * 100, 2), in hundredths of a percent
Pct(num, den) == RoundDiv(num * 10000, den)

\* mutant of SeqMax: the first qualifying threshold instead of the highest
SeqMaxFirst(s) == s[1]

RECURSIVE SeqMax(_)
SeqMax(s) == IF Len(s) = 1 THEN s[1]
             ELSE LET m == SeqMax(Tail(s)) IN IF s[1] >= m THEN s[1] ELSE m

\* mutant of SeqMin: the first qualifying target instead of the lowest
SeqMinFirst(s) == s[1]

RECURSIVE SeqMin(_)
SeqMin(s) == IF Len(s) = 1 THEN s[1]
             ELSE LET m == SeqMin(Tail(s)) IN IF s[1] <= m THEN s[1] ELSE m

Range(s) == {s[i] : i \in DOMAIN s}

-----------------------------------------------------------------------------
(* Dedup state *)

AlertKey(crypto_id, class, value) == <<crypto_id, class, value>>

\* mutant of LoadSentAlerts: a document of another date is reset whatever
\* reset_alerts_daily says
LoadSentAlertsAlwaysReset(f, day, reset) ==
    IF f.status = "ok" /\ f.date = day
    THEN [date |-> f.date, sent |-> f.sent]
    ELSE [date |-> day, sent |-> {}]

\* load_sent_alerts: the state a run starts from
LoadSentAlerts(f, day, reset) ==
    IF f.status = "ok"
    THEN IF f.date # day /\ reset
         THEN [date |-> day, sent |-> {}]
         ELSE [date |-> f.date, sent |-> f.sent]
    ELSE [date |-> day, sent |-> {}]

\* save_sent_alerts: the file after json.dump of alert_data succeeded ("ok"),
\* open() was refused ("denied"), or the write broke off after open() had
\* truncated the file ("partial")
SaveSentAlerts(alert_data, f, outcome) ==
    CASE outcome = "ok" -> Document(alert_data.date, alert_data.sent)
      [] outcome = "denied" -> f
      [] outcome = "partial" -> CorruptFile

SaveOutcomes == {"ok", "denied", "partial"}

-----------------------------------------------------------------------------
(* Evaluation of one entry of current_data *)

\* mutant of MarketData: the range fields are left out
MarketDataWithoutRange(current_price, coin_52w_stats) ==
    [high52w |-> None, low52w |-> None, pctFrom52wHigh |-> None, pctFrom52wLow |-> None]

\* market_data: the 52-week range fields of an alert
MarketData(current_price, coin_52w_stats) ==
    LET high_52w == IF coin_52w_stats = None THEN None
                    ELSE Some(Val(coin_52w_stats).high_52w)
        low_52w == IF coin_52w_stats = None THEN None
                   ELSE Some(Val(coin_52w_stats).low_52w)
    IN [high52w |-> high_52w,
        low52w |-> low_52w,
        pctFrom52wHigh |->
            IF high_52w # None /\ Val(high_52w) > 0
            THEN Some(Pct(current_price - Val(high_52w), Val(high_52w)))
            ELSE None,
        pctFrom52wLow |->
            IF low_52w # None /\ Val(low_52w) > 0
            THEN Some(Pct(current_price - Val(low_52w), Val(low_52w)))
            ELSE None]

\* mutant of DropAtLeast: drop_percent > t
DropAbove(ath_price, current_price, t) ==
    (ath_price - current_price) * 100 > t * ath_price

\* drop_percent >= t, for ath_price > 0
DropAtLeast(ath_price, current_price, t) ==
    (ath_price - current_price) * 100 >= t * ath_price

TriggeredThresholds(coin_config, crypto_id, ath_price, current_price, sent) ==
    SelectSeq(coin_config.ath_thresholds,
              LAMBDA t : /\ DropAtLeast(ath_price, current_price, t)
                         /\ AlertKey(crypto_id, "ath", t) \notin sent)

\* mutant of TriggeredTargets: the dedup key is not consulted
TriggeredTargetsNoDedup(coin_config, crypto_id, current_price, sent) ==
    SelectSeq(coin_config.price_alerts, LAMBDA p : current_price <= p)

\* mutant of TriggeredTargets: a target of 0 is never reached
TriggeredTargetsPositive(coin_config, crypto_id, current_price, sent) ==
    SelectSeq(coin_config.price_alerts,
              LAMBDA p : /\ p > 0
                         /\ current_price <= p
                         /\ AlertKey(crypto_id, "price", p) \notin sent)

TriggeredTargets(coin_config, crypto_id, current_price, sent) ==
    SelectSeq(coin_config.price_alerts,
              LAMBDA p : /\ current_price <= p
                         /\ AlertKey(crypto_id, "price", p) \notin sent)

\* effective price of a drawdown candidate, in hundredths
EffectivePrice(ath_price, best_threshold) == ath_price * (100 - best_threshold)

AthAlert(coin_config, current_price, ath_price, best_threshold, market_data) ==
    [type |-> "ath",
     crypto |-> <<coin_config.name, coin_config.symbol>>,
     currentPrice |-> current_price,
     athPrice |-> Some(ath_price),
     dropPercent |-> Some(Pct(ath_price - current_price, ath_price)),
     threshold |-> Some(best_threshold),
     targetPrice |-> None,
     priceDiff |-> None,
     priceDiffPercent |-> None,
     score |-> Some(EffectivePrice(ath_price, best_threshold)),
     high52w |-> market_data.high52w,
     low52w |-> market_data.low52w,
     pctFrom52wHigh |-> market_data.pctFrom52wHigh,
     pctFrom52wLow |-> market_data.pctFrom52wLow]

PriceDiffPercent(current_price, best_target) ==
    IF best_target > 0 THEN Pct(current_price - best_target, best_target) ELSE 0

PriceAlert(coin_config, current_price, best_target, market_data) ==
    [type |-> "price",
     crypto |-> <<coin_config.name, coin_config.symbol>>,
     currentPrice |-> current_price,
     athPrice |-> None,
     dropPercent |-> None,
     threshold |-> None,
     targetPrice |-> Some(best_target),
     priceDiff |-> Some(current_price - best_target),
     priceDiffPercent |-> Some(PriceDiffPercent(current_price, best_target)),
     score |-> Some(100 * best_target),
     high52w |-> market_data.high52w,
     low52w |-> market_data.low52w,
     pctFrom52wHigh |-> market_data.pctFrom52wHigh,
     pctFrom52wLow |-> market_data.pctFrom52wLow]

\* mutant of SortByScore: the candidates are left in the order they were found
SortByScoreUnsorted(p) == p

\* mutant of SortByScore: of two candidates with equal scores the later one
\* comes first
SortByScoreLaterWinsTies(p) ==
    IF Len(p) = 2 /\ Val(p[2].score) <= Val(p[1].score)
    THEN <<p[2], p[1]>>
    ELSE p

\* potential_alerts.sort(key=score): a stable sort of at most two candidates
SortByScore(p) ==
    IF Len(p) = 2 /\ Val(p[2].score) < Val(p[1].score)
    THEN <<p[2], p[1]>>
    ELSE p

\* best_alert = potential_alerts[0]; del best_alert['score']
BestAlert(p) == [SortByScore(p)[1] EXCEPT !.score = None]

-----------------------------------------------------------------------------
(* send_discord_alert: the embed *)

\* color of the embed
ColorRed == 16711680
ColorOrange == 16753920

\* an optional percentage as the ":+.1f" format prints it, in tenths of a percent
OneDecimal(o) == IF o = None THEN None ELSE Some(RoundDiv(Val(o), 10))

NoLine == [crypto |-> <<"", "">>, currentPrice |-> None, dropPercent |-> None,
           athPrice |-> None, threshold |-> None, targetPrice |-> None,
           priceDiff |-> None, priceDiffPercent |-> None,
           pctFrom52wHigh |-> None, pctFrom52wLow |-> None]

\* the text block of one drawdown alert: the values it prints
AthLine(alert) ==
    [NoLine EXCEPT !.crypto = alert.crypto,
                   !.currentPrice = Some(alert.currentPrice),
                   !.dropPercent = alert.dropPercent,
                   !.athPrice = alert.athPrice,
                   !.threshold = alert.threshold,
                   !.pctFrom52wHigh = OneDecimal(alert.pctFrom52wHigh),
                   !.pctFrom52wLow = OneDecimal(alert.pctFrom52wLow)]

\* the text block of one target alert: the values it prints
PriceLine(alert) ==
    [NoLine EXCEPT !.crypto = alert.crypto,
                   !.currentPrice = Some(alert.currentPrice),
                   !.targetPrice = alert.targetPrice,
                   !.priceDiff = alert.priceDiff,
                   !.priceDiffPercent = alert.priceDiffPercent,
                   !.pctFrom52wHigh = OneDecimal(alert.pctFrom52wHigh),
                   !.pctFrom52wLow = OneDecimal(alert.pctFrom52wLow)]

Part(kind, line) == [kind |-> kind, line |-> line]

RECURSIVE MapLines(_, _)
MapLines(list, kind) ==
    IF list = <<>> THEN <<>>
    ELSE <<Part(kind, IF kind = "ath" THEN AthLine(Head(list)) ELSE PriceLine(Head(list)))>>
         \o MapLines(Tail(list), kind)

\* mutant of DescriptionParts: the alerts are listed under one heading, ungrouped
DescriptionPartsUngrouped(alert_list) ==
    <<Part("ath_header", NoLine)>>
    \o [i \in DOMAIN alert_list |->
          Part(alert_list[i].type,
               IF alert_list[i].type = "ath" THEN AthLine(alert_list[i])
               ELSE PriceLine(alert_list[i]))]

\* description_parts
DescriptionParts(alert_list) ==
    LET ath_alerts == SelectSeq(alert_list, LAMBDA a : a.type = "ath")
        price_alerts == SelectSeq(alert_list, LAMBDA a : a.type = "price")
        ath_part == IF ath_alerts # <<>>
                    THEN <<Part("ath_header", NoLine)>> \o MapLines(ath_alerts, "ath")
                    ELSE <<>>
        separator == IF price_alerts # <<>> /\ ath_part # <<>>
                     THEN <<Part("separator", NoLine)>>
                     ELSE <<>>
        price_part == IF price_alerts # <<>>
                      THEN <<Part("price_header", NoLine)>> \o MapLines(price_alerts, "price")
                      ELSE <<>>
    IN ath_part \o separator \o price_part

\* mutant of EmbedColor: every batch is red
EmbedColorAlwaysRed(alert_list) == ColorRed

EmbedColor(alert_list) ==
    LET ath_alerts == SelectSeq(alert_list, LAMBDA a : a.type = "ath")
        price_alerts == SelectSeq(alert_list, LAMBDA a : a.type = "price")
    IN IF price_alerts # <<>> /\ ath_alerts = <<>> THEN ColorOrange ELSE ColorRed

\* embed (the footer's wall-clock time is left out)
Embed(alert_list) ==
    [built |-> TRUE,
     title |-> Len(alert_list),
     color |-> EmbedColor(alert_list),
     description |-> DescriptionParts(alert_list)]

NoMessage == [built |-> FALSE, title |-> 0, color |-> 0, description |-> <<>>]

-----------------------------------------------------------------------------
(* Configuration files and their validation (--validate) *)

\* A JSON value is known by its type: "absent" (no such key), "bool", "num",
\* "list", "str" (a string without upper-case letters), "Str" (another string).
IsStr(tag) == tag \in {"str", "Str"}
\* isinstance(x, int) holds for a Python bool too
IsInt(tag) == tag \in {"num", "bool"}

required_fields == <<"id", "name", "symbol", "ath_thresholds", "price_alerts">>

\* an entry of 'coins': the type of the value under each key
GoodCoin == [id |-> "str", name |-> "Str", symbol |-> "Str",
             ath_thresholds |-> "list", price_alerts |-> "list"]
\* no symbol, no price_alerts, an upper-case id and a number for ath_thresholds
BadCoin == [id |-> "Str", name |-> "Str", symbol |-> "absent",
            ath_thresholds |-> "num", price_alerts |-> "absent"]

\* coins_config.json on disk: "status" says whether the file exists and parses;
\* "truthy" is FALSE for the empty object
CoinsDoc(status, truthy, has_coins, coins_is_list, coins) ==
    [status |-> status, truthy |-> truthy, has_coins |-> has_coins,
     coins_is_list |-> coins_is_list, coins |-> coins]

CoinsDocs ==
    { CoinsDoc("missing", FALSE, FALSE, FALSE, <<>>),
      CoinsDoc("malformed", FALSE, FALSE, FALSE, <<>>),
      CoinsDoc("ok", FALSE, FALSE, FALSE, <<>>),
      CoinsDoc("ok", TRUE, FALSE, FALSE, <<>>),
      CoinsDoc("ok", TRUE, TRUE, FALSE, <<>>),
      CoinsDoc("ok", TRUE, TRUE, TRUE, <<GoodCoin, GoodCoin>>),
      CoinsDoc("ok", TRUE, TRUE, TRUE, <<GoodCoin, BadCoin>>) }

\* alert_config.json on disk: the type of the value under each key
AlertDoc(status, truthy, reset, interval, max_alerts, tracking_file) ==
    [status |-> status, truthy |-> truthy,
     reset_alerts_daily |-> reset, check_interval_minutes |-> interval,
     max_alerts_per_run |-> max_alerts, alert_tracking_file |-> tracking_file]

AlertDocs ==
    { AlertDoc("missing", FALSE, "absent", "absent", "absent", "absent"),
      AlertDoc("malformed", FALSE, "absent", "absent", "absent", "absent"),
      AlertDoc("ok", FALSE, "absent", "absent", "absent", "absent"),
      AlertDoc("ok", TRUE, "bool", "num", "num", "str"),
      AlertDoc("ok", TRUE, "bool", "absent", "bool", "absent"),
      AlertDoc("ok", TRUE, "str", "str", "num", "num") }

\* load_coins_config: None (falsy) when the file is missing or does not parse
LoadCoinsConfig(doc) ==
    IF doc.status = "ok" THEN doc ELSE CoinsDoc("ok", FALSE, FALSE, FALSE, <<>>)

\* load_alert_config: the defaults when the file is missing or does not parse
LoadAlertConfig(doc) ==
    IF doc.status = "ok" THEN doc
    ELSE AlertDoc("ok", TRUE, "bool", "absent", "absent", "str")

\* an error message: the coin it names (0: none), the field and the complaint
ConfigError(coin, field, what) == [coin |-> coin, field |-> field, what |-> what]

\* mutant of ValidateCoin: the first error found for a coin ends its validation
ValidateCoinStopAtFirst(k, coin) ==
    LET missing == SelectSeq(required_fields, LAMBDA f : coin[f] = "absent")
    IN IF missing # <<>> THEN <<ConfigError(k, missing[1], "missing")>>
       ELSE IF ~IsStr(coin.id) THEN <<ConfigError(k, "id", "type")>>
       ELSE IF ~IsStr(coin.name) THEN <<ConfigError(k, "name", "type")>>
       ELSE IF ~IsStr(coin.symbol) THEN <<ConfigError(k, "symbol", "type")>>
       ELSE IF coin.ath_thresholds # "list" THEN <<ConfigError(k, "ath_thresholds", "type")>>
       ELSE IF coin.price_alerts # "list" THEN <<ConfigError(k, "price_alerts", "type")>>
       ELSE <<>>

\* validate_coins_config, the body of "for idx, coin in enumerate(config['coins'])"
ValidateCoin(k, coin) ==
    LET missing == SelectSeq(required_fields, LAMBDA f : coin[f] = "absent")
        TypeError(f, good) ==
            IF coin[f] # "absent" /\ ~good
            THEN <<ConfigError(k, f, "type")>> ELSE <<>>
    IN [j \in DOMAIN missing |-> ConfigError(k, missing[j], "missing")]
       \o (IF coin.id = "absent" THEN <<>>
           ELSE IF ~IsStr(coin.id) THEN <<ConfigError(k, "id", "type")>>
           ELSE IF coin.id # "str" THEN <<ConfigError(k, "id", "lowercase")>>
           ELSE <<>>)
       \o TypeError("name", IsStr(coin.name))
       \o TypeError("symbol", IsStr(coin.symbol))
       \o TypeError("ath_thresholds", coin.ath_thresholds = "list")
       \o TypeError("price_alerts", coin.price_alerts = "list")

RECURSIVE ValidateCoins(_, _)
ValidateCoins(coins, k) ==
    IF k = 0 THEN <<>>
    ELSE ValidateCoins(coins, k - 1) \o ValidateCoin(k, coins[k])

\* validate_coins_config: the list of error messages
ValidateCoinsConfig(config) ==
    IF ~config.has_coins THEN <<ConfigError(0, "coins", "missing")>>
    ELSE IF ~config.coins_is_list THEN <<ConfigError(0, "coins", "type")>>
    ELSE ValidateCoins(config.coins, Len(config.coins))

\* validate_alert_config: the list of error messages
ValidateAlertConfig(config) ==
    LET TypeError(f, good) ==
            IF config[f] # "absent" /\ ~good
            THEN <<ConfigError(0, f, "type")>> ELSE <<>>
    IN TypeError("reset_alerts_daily", config.reset_alerts_daily = "bool")
       \o TypeError("check_interval_minutes", IsInt(config.check_interval_minutes))
       \o TypeError("max_alerts_per_run", IsInt(config.max_alerts_per_run))
       \o TypeError("alert_tracking_file", IsStr(config.alert_tracking_file))

\* no --validate run has been made by this process
NotValidated ==
    [ran |-> FALSE,
     coins |-> CoinsDoc("missing", FALSE, FALSE, FALSE, <<>>),
     alert |-> AlertDoc("missing", FALSE, "absent", "absent", "absent", "absent"),
     coins_errors |-> <<>>, alert_errors |-> <<>>]

-----------------------------------------------------------------------------
(* Dates, the range cache file and is_stats_stale (update_52w_stats.py) *)

\* A date is a day number: the proleptic Gregorian ordinal of datetime.date,
\* counted from 2025-02-26, so that day 1 is 2025-02-27.
IsLeap(y) == y % 4 = 0 /\ (y % 100 # 0 \/ y % 400 = 0)

DaysInMonth(y, m) ==
    CASE m = 2 -> IF IsLeap(y) THEN 29 ELSE 28
      [] m \in {4, 6, 9, 11} -> 30
      [] OTHER -> 31

RECURSIVE DaysBeforeMonth(_, _)
DaysBeforeMonth(y, m) ==
    IF m = 1 THEN 0 ELSE DaysBeforeMonth(y, m - 1) + DaysInMonth(y, m - 1)

DaysBeforeYear(y) ==
    (y - 1) * 365 + (y - 1) \div 4 - (y - 1) \div 100 + (y - 1) \div 400

Ordinal(y, m, d) == DaysBeforeYear(y) + DaysBeforeMonth(y, m) + d

DayNumber(y, m, d) == Ordinal(y, m, d) - Ordinal(2025, 2, 26)

\* A date string: None, a text that is not of the form YYYY-MM-DD, or the
\* year, month and day the text spells
NoDateStr == [kind |-> "none", ymd |-> <<0, 0, 0>>]
BadDateStr == [kind |-> "text", ymd |-> <<0, 0, 0>>]
Ymd(y, m, d) == [kind |-> "ymd", ymd |-> <<y, m, d>>]

\* datetime.strptime(s, "%Y-%m-%d") succeeds
Parses(s) ==
    /\ s.kind = "ymd"
    /\ s.ymd[1] >= 1
    /\ s.ymd[2] \in 1..12
    /\ s.ymd[3] \in 1..DaysInMonth(s.ymd[1], s.ymd[2])

\* datetime.strptime(s, "%Y-%m-%d").date()
ParseDate(s) == DayNumber(s.ymd[1], s.ymd[2], s.ymd[3])

\* str(a date): the year, month and day of the day number
FormatDate(n) ==
    CHOOSE s \in {Ymd(y, m, d) : y \in {2025}, m \in 1..12, d \in 1..31} :
        Parses(s) /\ ParseDate(s) = n

\* mutant of IsStatsStale: a cache exactly max_age_days old counts as stale
IsStatsStaleAtMaxAge(last_updated_str, max_age_days) ==
    IF last_updated_str.kind = "none" THEN TRUE
    ELSE IF ~Parses(last_updated_str) THEN TRUE
    ELSE today - ParseDate(last_updated_str) >= max_age_days

\* is_stats_stale
IsStatsStale(last_updated_str, max_age_days) ==
    IF last_updated_str.kind = "none" THEN TRUE
    ELSE IF ~Parses(last_updated_str) THEN TRUE
    ELSE today - ParseDate(last_updated_str) > max_age_days

\* the strings is_stats_stale is asked about, and the ages it is given
DateStrings ==
    {NoDateStr, BadDateStr, Ymd(2025, 2, 30), Ymd(2025, 13, 1), Ymd(2025, 2, 0)}
    \cup {Ymd(2025, 2, d) : d \in 18..28}
    \cup {Ymd(2025, 3, d) : d \in 1..4}
MaxAges == {0, 1, DefaultMaxAgeDays}

NotAsked == [called |-> FALSE, last_updated_str |-> NoDateStr, max_age_days |-> 0,
             result |-> FALSE]

\* an entry of stats_data["coins"]
NoEntry == [present |-> FALSE, high_52w |-> 0, low_52w |-> 0, updated_at |-> NoDateStr]
StatsEntry(high, low, day) ==
    [present |-> TRUE, high_52w |-> high, low_52w |-> low, updated_at |-> FormatDate(day)]

\* 52w_stats.json: missing, or the document of an earlier refresh
NoCache == [status |-> "missing", last_updated |-> NoDateStr,
            coins |-> [i \in Ids |-> NoEntry]]
OldCache == [status |-> "ok", last_updated |-> FormatDate(-6),
             coins |-> [i \in Ids |-> StatsEntry(110, 50, -6)]]
CorruptCache == [status |-> "corrupt", last_updated |-> NoDateStr,
                 coins |-> [i \in Ids |-> NoEntry]]

\* stats_data before any fetch of a run on the given day
NewStatsData(day) ==
    [status |-> "ok", last_updated |-> FormatDate(day), coins |-> [i \in Ids |-> NoEntry]]

\* the refresher is not running
UpdaterIdle ==
    /\ stats_file = NoCache
    /\ u_pc = "idle"
    /\ u_idx = 0
    /\ stats_data = NoCache
    /\ failed_coins = <<>>
    /\ fetchLog = <<>>
    /\ sleepLog = <<>>
    /\ is_stale = NotAsked
    /\ statsSaveOutcome = "none"
    /\ statsFileAtStart = stats_file

\* no gateway call is being followed
NoCall == [function |-> "none", crypto_id |-> "", max_retries |-> 0]
GatewayIdle ==
    /\ g_call = NoCall
    /\ g_pc = "idle"
    /\ attempt = 0
    /\ g_log = <<>>
    /\ g_result = "none"

-----------------------------------------------------------------------------
(* Initial state: the files on disk before the first run *)

Init ==
    /\ coins_config \in Configs
    /\ reset_alerts_daily \in BOOLEAN
    /\ stats_52w \in StatsFiles
    /\ file \in {MissingFile, CorruptFile}
    /\ today = 1
    /\ pc = "idle"
    /\ dry_run = FALSE
    /\ sent_alerts = [date |-> 1, sent |-> {}]
    /\ current_data = <<>>
    /\ idx = 0
    /\ ath_data = NoAth
    /\ potential_alerts = <<>>
    /\ triggered_ath_keys = <<>>
    /\ triggered_price_keys = <<>>
    /\ alerts = <<>>
    /\ new_sent_alerts = {}
    /\ saveCalls = 0
    /\ posts = 0
    /\ message = NoMessage
    /\ logged = <<>>
    /\ delivery = "none"
    /\ athSeen = <<>>
    /\ saveOutcome = "none"
    /\ fileAtStart = file
    /\ validated = NotValidated
    /\ exit_status = None
    /\ sleepCalls = 0
    /\ no_webhook_return = FALSE
    /\ UpdaterIdle
    /\ GatewayIdle

-----------------------------------------------------------------------------
(* main and check_alerts, step by step *)

Terminated == pc \in {"idle", "done", "aborted", "interrupted", "exited"}

\* the configured coin an alert is about
AlertId(alert) ==
    CHOOSE i \in Ids : <<coins_config.coins[i].name, coins_config.coins[i].symbol>> = alert.crypto

\* the dedup key of an alert's representative threshold or target
KeyOfAlert(alert) ==
    IF alert.type = "ath"
    THEN AlertKey(AlertId(alert), "ath", Val(alert.threshold))
    ELSE AlertKey(AlertId(alert), "price", Val(alert.targetPrice))

KeysOfAlerts(alert_list) == {KeyOfAlert(alert_list[i]) : i \in DOMAIN alert_list}

\* a new process starts on date d: main reads the flags, check_alerts loads the
\* configurations, the dedup state and the 52-week stats
MainStart(dry, d) ==
    /\ Terminated
    /\ d \in {today, today + 1}
    /\ d <= MaxDate
    /\ today' = d
    /\ dry_run' = dry
    /\ sent_alerts' = IF coins_config.ok
                      THEN LoadSentAlerts(file, d, reset_alerts_daily)
                      ELSE [date |-> d, sent |-> {}]
    /\ pc' = IF coins_config.ok THEN "fetch" ELSE "returned"
    /\ current_data' = <<>>
    /\ idx' = 0
    /\ ath_data' = NoAth
    /\ potential_alerts' = <<>>
    /\ triggered_ath_keys' = <<>>
    /\ triggered_price_keys' = <<>>
    /\ alerts' = <<>>
    /\ new_sent_alerts' = {}
    /\ saveCalls' = 0
    /\ posts' = 0
    /\ message' = NoMessage
    /\ logged' = <<>>
    /\ delivery' = "none"
    /\ athSeen' = <<>>
    /\ saveOutcome' = "none"
    /\ fileAtStart' = file
    /\ validated' = NotValidated
    /\ exit_status' = None
    /\ sleepCalls' = 0
    /\ no_webhook_return' = FALSE
    /\ UNCHANGED <<coins_config, reset_alerts_daily, stats_52w, file,
                   updater_vars, gateway_vars>>

\* mutant of MainNoWebhook: the run goes on to check_alerts without a webhook URL
MainNoWebhookRunsCycle(d) ==
    /\ Terminated
    /\ d \in {today, today + 1}
    /\ d <= MaxDate
    /\ today' = d
    /\ dry_run' = FALSE
    /\ sent_alerts' = [date |-> d, sent |-> {}]
    /\ pc' = IF coins_config.ok THEN "fetch" ELSE "returned"
    /\ current_data' = <<>>
    /\ idx' = 0
    /\ ath_data' = NoAth
    /\ potential_alerts' = <<>>
    /\ triggered_ath_keys' = <<>>
    /\ triggered_price_keys' = <<>>
    /\ alerts' = <<>>
    /\ new_sent_alerts' = {}
    /\ saveCalls' = 0
    /\ posts' = 0
    /\ message' = NoMessage
    /\ logged' = <<>>
    /\ delivery' = "none"
    /\ athSeen' = <<>>
    /\ saveOutcome' = "none"
    /\ fileAtStart' = file
    /\ validated' = NotValidated
    /\ exit_status' = None
    /\ sleepCalls' = 0
    /\ no_webhook_return' = TRUE
    /\ UNCHANGED <<coins_config, reset_alerts_daily, stats_52w, file,
                   updater_vars, gateway_vars>>

\* a new process starts on date d in live mode and DISCORD_WEBHOOK_URL is not
\* set: main logs the error and returns before check_alerts is called
MainNoWebhook(d) ==
    /\ Terminated
    /\ d \in {today, today + 1}
    /\ d <= MaxDate
    /\ today' = d
    /\ dry_run' = FALSE
    /\ sent_alerts' = [date |-> d, sent |-> {}]
    /\ pc' = "done"
    /\ current_data' = <<>>
    /\ idx' = 0
    /\ ath_data' = NoAth
    /\ potential_alerts' = <<>>
    /\ triggered_ath_keys' = <<>>
    /\ triggered_price_keys' = <<>>
    /\ alerts' = <<>>
    /\ new_sent_alerts' = {}
    /\ saveCalls' = 0
    /\ posts' = 0
    /\ message' = NoMessage
    /\ logged' = <<>>
    /\ delivery' = "none"
    /\ athSeen' = <<>>
    /\ saveOutcome' = "none"
    /\ fileAtStart' = file
    /\ validated' = NotValidated
    /\ exit_status' = None
    /\ sleepCalls' = 0
    /\ no_webhook_return' = TRUE
    /\ UNCHANGED <<coins_config, reset_alerts_daily, stats_52w, file,
                   updater_vars, gateway_vars>>

\* main with --validate starts: a new process, no dry run, nothing loaded yet
MainValidate ==
    /\ Terminated
    /\ pc' = "validate"
    /\ dry_run' = FALSE
    /\ sent_alerts' = [date |-> today, sent |-> {}]
    /\ current_data' = <<>>
    /\ idx' = 0
    /\ ath_data' = NoAth
    /\ potential_alerts' = <<>>
    /\ triggered_ath_keys' = <<>>
    /\ triggered_price_keys' = <<>>
    /\ alerts' = <<>>
    /\ new_sent_alerts' = {}
    /\ saveCalls' = 0
    /\ posts' = 0
    /\ message' = NoMessage
    /\ logged' = <<>>
    /\ delivery' = "none"
    /\ athSeen' = <<>>
    /\ saveOutcome' = "none"
    /\ fileAtStart' = file
    /\ validated' = NotValidated
    /\ exit_status' = None
    /\ sleepCalls' = 0
    /\ no_webhook_return' = FALSE
    /\ UNCHANGED <<coins_config, reset_alerts_daily, stats_52w, file, today,
                   updater_vars, gateway_vars>>

\* the --validate branch of main: both files, as found on disk, are loaded and
\* validated, every error is logged, and the process exits with status 0 or 1
ValidateConfigs(coins_doc, alert_doc) ==
    /\ pc = "validate"
    /\ LET coins_loaded == LoadCoinsConfig(coins_doc)
           alert_loaded == LoadAlertConfig(alert_doc)
           coins_errors == IF coins_loaded.truthy
                           THEN ValidateCoinsConfig(coins_loaded) ELSE <<>>
           alert_errors == IF alert_loaded.truthy
                           THEN ValidateAlertConfig(alert_loaded) ELSE <<>>
           all_valid == /\ coins_loaded.truthy /\ coins_errors = <<>>
                        /\ alert_loaded.truthy /\ alert_errors = <<>>
       IN /\ validated' = [ran |-> TRUE, coins |-> coins_doc, alert |-> alert_doc,
                           coins_errors |-> coins_errors, alert_errors |-> alert_errors]
          /\ exit_status' = Some(IF all_valid THEN 0 ELSE 1)
    /\ pc' = "exited"
    /\ UNCHANGED <<coins_config, reset_alerts_daily, stats_52w, file, today, dry_run,
                   sent_alerts, current_data, idx, ath_data, potential_alerts,
                   triggered_ath_keys, triggered_price_keys, alerts, new_sent_alerts,
                   saveCalls, posts, message, logged, delivery, athSeen, saveOutcome,
                   fileAtStart, sleepCalls, no_webhook_return,
                   updater_vars, gateway_vars>>

\* mutant of FetchPrices: a snapshot that lacks a configured coin ends the cycle
FetchPricesNeedsAll(s) ==
    /\ pc = "fetch"
    /\ current_data' = s
    /\ LET complete == \A i \in Ids : \E k \in DOMAIN s : s[k].id = i
       IN /\ new_sent_alerts' = IF s = <<>> THEN new_sent_alerts ELSE sent_alerts.sent
          /\ pc' = IF s = <<>> \/ ~complete THEN "returned" ELSE "loop"
    /\ UNCHANGED <<coins_config, reset_alerts_daily, stats_52w, file, today, dry_run,
                   sent_alerts, idx, ath_data, potential_alerts, triggered_ath_keys,
                   triggered_price_keys, alerts, saveCalls, posts, message, logged,
                   delivery, athSeen, saveOutcome, fileAtStart,
                   validated, exit_status, sleepCalls, no_webhook_return,
                   updater_vars, gateway_vars>>

\* mutant of FetchPrices: new_sent_alerts starts empty instead of as a copy of
\* the loaded mapping
FetchPricesFreshState(s) ==
    /\ pc = "fetch"
    /\ current_data' = s
    /\ new_sent_alerts' = {}
    /\ pc' = IF s = <<>> THEN "returned" ELSE "loop"
    /\ UNCHANGED <<coins_config, reset_alerts_daily, stats_52w, file, today, dry_run,
                   sent_alerts, idx, ath_data, potential_alerts, triggered_ath_keys,
                   triggered_price_keys, alerts, saveCalls, posts, message, logged,
                   delivery, athSeen, saveOutcome, fileAtStart,
                   validated, exit_status, sleepCalls, no_webhook_return,
                   updater_vars, gateway_vars>>

\* get_current_prices returned the list s
FetchPrices(s) ==
    /\ pc = "fetch"
    /\ current_data' = s
    /\ new_sent_alerts' = IF s = <<>> THEN new_sent_alerts ELSE sent_alerts.sent
    /\ pc' = IF s = <<>> THEN "returned" ELSE "loop"
    /\ UNCHANGED <<coins_config, reset_alerts_daily, stats_52w, file, today, dry_run,
                   sent_alerts, idx, ath_data, potential_alerts, triggered_ath_keys,
                   triggered_price_keys, alerts, saveCalls, posts, message, logged,
                   delivery, athSeen, saveOutcome, fileAtStart,
                   validated, exit_status, sleepCalls, no_webhook_return,
                   updater_vars, gateway_vars>>

\* get_current_prices returned None
FetchFails ==
    /\ pc = "fetch"
    /\ pc' = "returned"
    /\ UNCHANGED <<coins_config, reset_alerts_daily, stats_52w, file, today, dry_run,
                   sent_alerts, current_data, idx, ath_data, potential_alerts,
                   triggered_ath_keys, triggered_price_keys, alerts, new_sent_alerts,
                   saveCalls, posts, message, logged, delivery, athSeen, saveOutcome, fileAtStart,
                   validated, exit_status, sleepCalls, no_webhook_return,
                   updater_vars, gateway_vars>>

\* for crypto in current_data: an entry the configuration does not name is skipped
LoopSkip ==
    /\ pc = "loop"
    /\ idx < Len(current_data)
    /\ current_data[idx + 1].id \notin Ids
    /\ idx' = idx + 1
    /\ UNCHANGED <<coins_config, reset_alerts_daily, stats_52w, file, today, pc, dry_run,
                   sent_alerts, current_data, ath_data, potential_alerts,
                   triggered_ath_keys, triggered_price_keys, alerts, new_sent_alerts,
                   saveCalls, posts, message, logged, delivery, athSeen, saveOutcome, fileAtStart,
                   validated, exit_status, sleepCalls, no_webhook_return,
                   updater_vars, gateway_vars>>

\* mutant of LoopEnter: the ATH lookup is made for every configured entry
LoopEnterAlwaysAth ==
    /\ pc = "loop"
    /\ idx < Len(current_data)
    /\ current_data[idx + 1].id \in Ids
    /\ idx' = idx + 1
    /\ potential_alerts' = <<>>
    /\ triggered_ath_keys' = <<>>
    /\ triggered_price_keys' = <<>>
    /\ pc' = "ath"
    /\ UNCHANGED <<coins_config, reset_alerts_daily, stats_52w, file, today, dry_run,
                   sent_alerts, current_data, ath_data, alerts, new_sent_alerts,
                   saveCalls, posts, message, logged, delivery, athSeen, saveOutcome, fileAtStart,
                   validated, exit_status, sleepCalls, no_webhook_return,
                   updater_vars, gateway_vars>>

\* for crypto in current_data: the body starts for a configured entry
LoopEnter ==
    /\ pc = "loop"
    /\ idx < Len(current_data)
    /\ current_data[idx + 1].id \in Ids
    /\ idx' = idx + 1
    /\ potential_alerts' = <<>>
    /\ triggered_ath_keys' = <<>>
    /\ triggered_price_keys' = <<>>
    /\ pc' = IF coins_config.coins[current_data[idx + 1].id].ath_thresholds # <<>>
             THEN "ath" ELSE "price"
    /\ UNCHANGED <<coins_config, reset_alerts_daily, stats_52w, file, today, dry_run,
                   sent_alerts, current_data, ath_data, alerts, new_sent_alerts,
                   saveCalls, posts, message, logged, delivery, athSeen, saveOutcome, fileAtStart,
                   validated, exit_status, sleepCalls, no_webhook_return,
                   updater_vars, gateway_vars>>

\* the for loop is exhausted
LoopExit ==
    /\ pc = "loop"
    /\ idx = Len(current_data)
    /\ pc' = "save"
    /\ UNCHANGED <<coins_config, reset_alerts_daily, stats_52w, file, today, dry_run,
                   sent_alerts, current_data, idx, ath_data, potential_alerts,
                   triggered_ath_keys, triggered_price_keys, alerts, new_sent_alerts,
                   saveCalls, posts, message, logged, delivery, athSeen, saveOutcome, fileAtStart,
                   validated, exit_status, sleepCalls, no_webhook_return,
                   updater_vars, gateway_vars>>

\* the entry the loop body is working on, and its configuration
Crypto == current_data[idx]
CoinConfig == coins_config.coins[Crypto.id]

\* mutant of KeyList: only the key of the highest value is listed
KeyListHighestOnly(crypto_id, class, values) ==
    IF values = <<>> THEN <<>> ELSE <<AlertKey(crypto_id, class, SeqMax(values))>>

KeyList(crypto_id, class, values) ==
    [i \in DOMAIN values |-> AlertKey(crypto_id, class, values[i])]

\* mutant of CheckAthAlerts: a lookup that returns None ends the run
CheckAthAlertsAbortOnNone(r) ==
    /\ pc = "ath"
    /\ ath_data' = r
    /\ athSeen' = (idx :> r) @@ athSeen
    /\ LET triggered_thresholds ==
               TriggeredThresholds(CoinConfig, Crypto.id, r.usd, Crypto.current_price,
                                   sent_alerts.sent)
           market_data == MarketData(Crypto.current_price, stats_52w.coins[Crypto.id])
       IN CASE r.kind \in {"malformed", "none"} ->
                 /\ pc' = "aborted"
                 /\ UNCHANGED <<potential_alerts, triggered_ath_keys>>
            [] r.kind = "ok" /\ triggered_thresholds = <<>> ->
                 /\ pc' = "sleep"
                 /\ UNCHANGED <<potential_alerts, triggered_ath_keys>>
            [] r.kind = "ok" /\ triggered_thresholds # <<>> ->
                 /\ pc' = "sleep"
                 /\ potential_alerts' =
                      Append(potential_alerts,
                             AthAlert(CoinConfig, Crypto.current_price, r.usd,
                                      SeqMax(triggered_thresholds), market_data))
                 /\ triggered_ath_keys' = KeyList(Crypto.id, "ath", triggered_thresholds)
    /\ UNCHANGED <<coins_config, reset_alerts_daily, stats_52w, file, today, dry_run,
                   sent_alerts, current_data, idx, triggered_price_keys, alerts,
                   new_sent_alerts, saveCalls, posts, message, logged, delivery,
                   saveOutcome, fileAtStart,
                   validated, exit_status, sleepCalls, no_webhook_return,
                   updater_vars, gateway_vars>>

\* "Check ATH alerts": get_ath_price returned r
CheckAthAlerts(r) ==
    /\ pc = "ath"
    /\ ath_data' = r
    /\ athSeen' = (idx :> r) @@ athSeen
    /\ LET triggered_thresholds ==
               TriggeredThresholds(CoinConfig, Crypto.id, r.usd, Crypto.current_price,
                                   sent_alerts.sent)
           market_data == MarketData(Crypto.current_price, stats_52w.coins[Crypto.id])
       IN CASE r.kind = "malformed" ->
                 \* ath_data['market_data']['ath']['usd'] raises KeyError, which main catches
                 /\ pc' = "aborted"
                 /\ UNCHANGED <<potential_alerts, triggered_ath_keys>>
            [] r.kind = "none" ->
                 /\ pc' = "sleep"
                 /\ UNCHANGED <<potential_alerts, triggered_ath_keys>>
            [] r.kind = "ok" /\ triggered_thresholds = <<>> ->
                 /\ pc' = "sleep"
                 /\ UNCHANGED <<potential_alerts, triggered_ath_keys>>
            [] r.kind = "ok" /\ triggered_thresholds # <<>> ->
                 /\ pc' = "sleep"
                 /\ potential_alerts' =
                      Append(potential_alerts,
                             AthAlert(CoinConfig, Crypto.current_price, r.usd,
                                      SeqMax(triggered_thresholds), market_data))
                 /\ triggered_ath_keys' = KeyList(Crypto.id, "ath", triggered_thresholds)
    /\ UNCHANGED <<coins_config, reset_alerts_daily, stats_52w, file, today, dry_run,
                   sent_alerts, current_data, idx, triggered_price_keys, alerts,
                   new_sent_alerts, saveCalls, posts, message, logged, delivery,
                   saveOutcome, fileAtStart,
                   validated, exit_status, sleepCalls, no_webhook_return,
                   updater_vars, gateway_vars>>

\* mutant of Sleep: the pause is taken only after a lookup that succeeded
SleepAfterSuccessOnly ==
    /\ pc = "sleep"
    /\ pc' = "price"
    /\ sleepCalls' = IF ath_data.kind = "ok" THEN sleepCalls + 1 ELSE sleepCalls
    /\ UNCHANGED <<coins_config, reset_alerts_daily, stats_52w, file, today, dry_run,
                   sent_alerts, current_data, idx, ath_data, potential_alerts,
                   triggered_ath_keys, triggered_price_keys, alerts, new_sent_alerts,
                   saveCalls, posts, message, logged, delivery, athSeen, saveOutcome, fileAtStart,
                   validated, exit_status, no_webhook_return,
                   updater_vars, gateway_vars>>

\* time.sleep(1.5) after the ATH lookup
Sleep ==
    /\ pc = "sleep"
    /\ pc' = "price"
    /\ sleepCalls' = sleepCalls + 1
    /\ UNCHANGED <<coins_config, reset_alerts_daily, stats_52w, file, today, dry_run,
                   sent_alerts, current_data, idx, ath_data, potential_alerts,
                   triggered_ath_keys, triggered_price_keys, alerts, new_sent_alerts,
                   saveCalls, posts, message, logged, delivery, athSeen, saveOutcome, fileAtStart,
                   validated, exit_status, no_webhook_return,
                   updater_vars, gateway_vars>>

\* mutant of CheckPriceAlerts: without a range entry the targets are not evaluated
CheckPriceAlertsNeedsStats ==
    /\ pc = "price"
    /\ pc' = "select"
    /\ LET triggered_targets ==
               TriggeredTargets(CoinConfig, Crypto.id, Crypto.current_price,
                                sent_alerts.sent)
           market_data == MarketData(Crypto.current_price, stats_52w.coins[Crypto.id])
       IN IF triggered_targets # <<>> /\ stats_52w.coins[Crypto.id] # None
          THEN /\ potential_alerts' =
                    Append(potential_alerts,
                           PriceAlert(CoinConfig, Crypto.current_price,
                                      SeqMin(triggered_targets), market_data))
               /\ triggered_price_keys' = KeyList(Crypto.id, "price", triggered_targets)
          ELSE UNCHANGED <<potential_alerts, triggered_price_keys>>
    /\ UNCHANGED <<coins_config, reset_alerts_daily, stats_52w, file, today, dry_run,
                   sent_alerts, current_data, idx, ath_data, triggered_ath_keys, alerts,
                   new_sent_alerts, saveCalls, posts, message, logged, delivery, athSeen,
                   saveOutcome, fileAtStart,
                   validated, exit_status, sleepCalls, no_webhook_return,
                   updater_vars, gateway_vars>>

\* "Check price alerts"
CheckPriceAlerts ==
    /\ pc = "price"
    /\ pc' = "select"
    /\ LET triggered_targets ==
               TriggeredTargets(CoinConfig, Crypto.id, Crypto.current_price,
                                sent_alerts.sent)
           market_data == MarketData(Crypto.current_price, stats_52w.coins[Crypto.id])
       IN IF triggered_targets # <<>>
          THEN /\ potential_alerts' =
                    Append(potential_alerts,
                           PriceAlert(CoinConfig, Crypto.current_price,
                                      SeqMin(triggered_targets), market_data))
               /\ triggered_price_keys' = KeyList(Crypto.id, "price", triggered_targets)
          ELSE UNCHANGED <<potential_alerts, triggered_price_keys>>
    /\ UNCHANGED <<coins_config, reset_alerts_daily, stats_52w, file, today, dry_run,
                   sent_alerts, current_data, idx, ath_data, triggered_ath_keys, alerts,
                   new_sent_alerts, saveCalls, posts, message, logged, delivery, athSeen,
                   saveOutcome, fileAtStart,
                   validated, exit_status, sleepCalls, no_webhook_return,
                   updater_vars, gateway_vars>>

\* mutant of SelectBest: every candidate is appended to the result
SelectBestAll ==
    /\ pc = "select"
    /\ pc' = "loop"
    /\ alerts' = alerts \o [j \in DOMAIN potential_alerts |->
                              [potential_alerts[j] EXCEPT !.score = None]]
    /\ new_sent_alerts' = new_sent_alerts \cup Range(triggered_ath_keys)
                             \cup Range(triggered_price_keys)
    /\ UNCHANGED <<coins_config, reset_alerts_daily, stats_52w, file, today, dry_run,
                   sent_alerts, current_data, idx, ath_data, potential_alerts,
                   triggered_ath_keys, triggered_price_keys, saveCalls, posts, message,
                   logged, delivery, athSeen, saveOutcome, fileAtStart,
                   validated, exit_status, sleepCalls, no_webhook_return,
                   updater_vars, gateway_vars>>

\* mutant of SelectBest: a dry run selects nothing
SelectBestLiveOnly ==
    /\ pc = "select"
    /\ pc' = "loop"
    /\ IF potential_alerts # <<>> /\ ~dry_run
       THEN /\ alerts' = Append(alerts, BestAlert(potential_alerts))
            /\ new_sent_alerts' = new_sent_alerts \cup Range(triggered_ath_keys)
                                     \cup Range(triggered_price_keys)
       ELSE UNCHANGED <<alerts, new_sent_alerts>>
    /\ UNCHANGED <<coins_config, reset_alerts_daily, stats_52w, file, today, dry_run,
                   sent_alerts, current_data, idx, ath_data, potential_alerts,
                   triggered_ath_keys, triggered_price_keys, saveCalls, posts, message,
                   logged, delivery, athSeen, saveOutcome, fileAtStart,
                   validated, exit_status, sleepCalls, no_webhook_return,
                   updater_vars, gateway_vars>>

\* mutant of SelectBest: only the keys of the emitted alert's class are marked
SelectBestMarksEmittedOnly ==
    /\ pc = "select"
    /\ pc' = "loop"
    /\ IF potential_alerts # <<>>
       THEN /\ alerts' = Append(alerts, BestAlert(potential_alerts))
            /\ new_sent_alerts' =
                  new_sent_alerts \cup
                     (IF BestAlert(potential_alerts).type = "ath"
                      THEN Range(triggered_ath_keys) ELSE Range(triggered_price_keys))
       ELSE UNCHANGED <<alerts, new_sent_alerts>>
    /\ UNCHANGED <<coins_config, reset_alerts_daily, stats_52w, file, today, dry_run,
                   sent_alerts, current_data, idx, ath_data, potential_alerts,
                   triggered_ath_keys, triggered_price_keys, saveCalls, posts, message,
                   logged, delivery, athSeen, saveOutcome, fileAtStart,
                   validated, exit_status, sleepCalls, no_webhook_return,
                   updater_vars, gateway_vars>>

\* "Select the best alert from potentials" and mark the triggered keys
SelectBest ==
    /\ pc = "select"
    /\ pc' = "loop"
    /\ IF potential_alerts # <<>>
       THEN /\ alerts' = Append(alerts, BestAlert(potential_alerts))
            /\ new_sent_alerts' = new_sent_alerts \cup Range(triggered_ath_keys)
                                     \cup Range(triggered_price_keys)
       ELSE UNCHANGED <<alerts, new_sent_alerts>>
    /\ UNCHANGED <<coins_config, reset_alerts_daily, stats_52w, file, today, dry_run,
                   sent_alerts, current_data, idx, ath_data, potential_alerts,
                   triggered_ath_keys, triggered_price_keys, saveCalls, posts, message,
                   logged, delivery, athSeen, saveOutcome, fileAtStart,
                   validated, exit_status, sleepCalls, no_webhook_return,
                   updater_vars, gateway_vars>>

\* mutant of MustSave: the dry-run flag is not consulted
MustSaveAlways == new_sent_alerts # sent_alerts.sent

\* mutant of MustSave: every live run saves, whether or not a key was marked
MustSaveLive == ~dry_run

\* the condition of "Save updated alert tracking (skip in dry run)"
MustSave == ~dry_run /\ new_sent_alerts # sent_alerts.sent

\* mutant of SaveTracking: a failed write raises out of check_alerts
SaveTrackingRaises(outcome) ==
    /\ pc = "save"
    /\ MustSave
    /\ sent_alerts' = [sent_alerts EXCEPT !.sent = new_sent_alerts]
    /\ file' = SaveSentAlerts(sent_alerts', file, outcome)
    /\ saveCalls' = saveCalls + 1
    /\ saveOutcome' = outcome
    /\ pc' = IF outcome = "ok" THEN "returned" ELSE "aborted"
    /\ UNCHANGED <<coins_config, reset_alerts_daily, stats_52w, today, dry_run,
                   current_data, idx, ath_data, potential_alerts, triggered_ath_keys,
                   triggered_price_keys, alerts, new_sent_alerts, posts, message, logged,
                   delivery, athSeen, fileAtStart,
                   validated, exit_status, sleepCalls, no_webhook_return,
                   updater_vars, gateway_vars>>

\* save_sent_alerts is called and ends with the given outcome; check_alerts returns
SaveTracking(outcome) ==
    /\ pc = "save"
    /\ MustSave
    /\ sent_alerts' = [sent_alerts EXCEPT !.sent = new_sent_alerts]
    /\ file' = SaveSentAlerts(sent_alerts', file, outcome)
    /\ saveCalls' = saveCalls + 1
    /\ saveOutcome' = outcome
    /\ pc' = "returned"
    /\ UNCHANGED <<coins_config, reset_alerts_daily, stats_52w, today, dry_run,
                   current_data, idx, ath_data, potential_alerts, triggered_ath_keys,
                   triggered_price_keys, alerts, new_sent_alerts, posts, message, logged,
                   delivery, athSeen, fileAtStart,
                   validated, exit_status, sleepCalls, no_webhook_return,
                   updater_vars, gateway_vars>>

\* mutant of SkipSave: check_alerts returns without persisting even when keys were marked
SkipSaveUnconditional ==
    /\ pc = "save"
    /\ pc' = "returned"
    /\ UNCHANGED <<coins_config, reset_alerts_daily, stats_52w, file, today, dry_run,
                   sent_alerts, current_data, idx, ath_data, potential_alerts,
                   triggered_ath_keys, triggered_price_keys, alerts, new_sent_alerts,
                   saveCalls, posts, message, logged, delivery, athSeen, saveOutcome, fileAtStart,
                   validated, exit_status, sleepCalls, no_webhook_return,
                   updater_vars, gateway_vars>>

\* nothing to save; check_alerts returns
SkipSave ==
    /\ pc = "save"
    /\ ~MustSave
    /\ pc' = "returned"
    /\ UNCHANGED <<coins_config, reset_alerts_daily, stats_52w, file, today, dry_run,
                   sent_alerts, current_data, idx, ath_data, potential_alerts,
                   triggered_ath_keys, triggered_price_keys, alerts, new_sent_alerts,
                   saveCalls, posts, message, logged, delivery, athSeen, saveOutcome, fileAtStart,
                   validated, exit_status, sleepCalls, no_webhook_return,
                   updater_vars, gateway_vars>>

\* main: no alerts came back
NoAlerts ==
    /\ pc = "returned"
    /\ alerts = <<>>
    /\ pc' = "done"
    /\ UNCHANGED <<coins_config, reset_alerts_daily, stats_52w, file, today, dry_run,
                   sent_alerts, current_data, idx, ath_data, potential_alerts,
                   triggered_ath_keys, triggered_price_keys, alerts, new_sent_alerts,
                   saveCalls, posts, message, logged, delivery, athSeen, saveOutcome, fileAtStart,
                   validated, exit_status, sleepCalls, no_webhook_return,
                   updater_vars, gateway_vars>>

\* mutant of SendDryRun: the dry run builds the embed and posts it
SendDryRunPosts ==
    /\ pc = "returned"
    /\ alerts # <<>>
    /\ dry_run
    /\ message' = Embed(alerts)
    /\ posts' = posts + 1
    /\ pc' = "done"
    /\ UNCHANGED <<coins_config, reset_alerts_daily, stats_52w, file, today, dry_run,
                   sent_alerts, current_data, idx, ath_data, potential_alerts,
                   triggered_ath_keys, triggered_price_keys, alerts, new_sent_alerts,
                   saveCalls, logged, delivery, athSeen, saveOutcome, fileAtStart,
                   validated, exit_status, sleepCalls, no_webhook_return,
                   updater_vars, gateway_vars>>

\* send_discord_alert(alerts, dry_run=True): the alerts are logged
SendDryRun ==
    /\ pc = "returned"
    /\ alerts # <<>>
    /\ dry_run
    /\ logged' = alerts
    /\ pc' = "done"
    /\ UNCHANGED <<coins_config, reset_alerts_daily, stats_52w, file, today, dry_run,
                   sent_alerts, current_data, idx, ath_data, potential_alerts,
                   triggered_ath_keys, triggered_price_keys, alerts, new_sent_alerts,
                   saveCalls, posts, message, delivery, athSeen, saveOutcome, fileAtStart,
                   validated, exit_status, sleepCalls, no_webhook_return,
                   updater_vars, gateway_vars>>

\* mutant of SendDiscordAlert: one POST per alert
SendDiscordAlertPerAlert(outcome) ==
    /\ pc = "returned"
    /\ alerts # <<>>
    /\ ~dry_run
    /\ message' = Embed(alerts)
    /\ posts' = posts + Len(alerts)
    /\ delivery' = outcome
    /\ pc' = "done"
    /\ UNCHANGED <<coins_config, reset_alerts_daily, stats_52w, file, today, dry_run,
                   sent_alerts, current_data, idx, ath_data, potential_alerts,
                   triggered_ath_keys, triggered_price_keys, alerts, new_sent_alerts,
                   saveCalls, logged, athSeen, saveOutcome, fileAtStart,
                   validated, exit_status, sleepCalls, no_webhook_return,
                   updater_vars, gateway_vars>>

\* mutant of SendDiscordAlert: a failed delivery restores the dedup-state file
SendDiscordAlertRollsBack(outcome) ==
    /\ pc = "returned"
    /\ alerts # <<>>
    /\ ~dry_run
    /\ message' = Embed(alerts)
    /\ posts' = posts + 1
    /\ delivery' = outcome
    /\ file' = IF outcome = "failed" THEN fileAtStart ELSE file
    /\ pc' = "done"
    /\ UNCHANGED <<coins_config, reset_alerts_daily, stats_52w, today, dry_run,
                   sent_alerts, current_data, idx, ath_data, potential_alerts,
                   triggered_ath_keys, triggered_price_keys, alerts, new_sent_alerts,
                   saveCalls, logged, athSeen, saveOutcome, fileAtStart,
                   validated, exit_status, sleepCalls, no_webhook_return,
                   updater_vars, gateway_vars>>

\* send_discord_alert(alerts): the embed is built and posted; the POST succeeds
\* or fails (timeout, HTTP error, connection error)
SendDiscordAlert(outcome) ==
    /\ pc = "returned"
    /\ alerts # <<>>
    /\ ~dry_run
    /\ message' = Embed(alerts)
    /\ posts' = posts + 1
    /\ delivery' = outcome
    /\ pc' = "done"
    /\ UNCHANGED <<coins_config, reset_alerts_daily, stats_52w, file, today, dry_run,
                   sent_alerts, current_data, idx, ath_data, potential_alerts,
                   triggered_ath_keys, triggered_price_keys, alerts, new_sent_alerts,
                   saveCalls, logged, athSeen, saveOutcome, fileAtStart,
                   validated, exit_status, sleepCalls, no_webhook_return,
                   updater_vars, gateway_vars>>

\* mutant of Interrupt: the keys marked so far are flushed when the interrupt arrives
InterruptFlushes ==
    /\ pc \in {"fetch", "loop", "ath", "sleep", "price", "select", "save", "returned"}
    /\ pc' = "interrupted"
    /\ file' = IF new_sent_alerts # sent_alerts.sent
               THEN Document(sent_alerts.date, new_sent_alerts)
               ELSE file
    /\ UNCHANGED <<coins_config, reset_alerts_daily, stats_52w, today, dry_run,
                   sent_alerts, current_data, idx, ath_data, potential_alerts,
                   triggered_ath_keys, triggered_price_keys, alerts, new_sent_alerts,
                   saveCalls, posts, message, logged, delivery, athSeen, saveOutcome, fileAtStart,
                   validated, exit_status, sleepCalls, no_webhook_return,
                   updater_vars, gateway_vars>>

\* main: except KeyboardInterrupt. The interrupt arrives while check_alerts is
\* fetching, looking up, sleeping or evaluating, or in main before delivery; the
\* handler only logs and the process ends
Interrupt ==
    /\ pc \in {"fetch", "loop", "ath", "sleep", "price", "select", "save", "returned"}
    /\ pc' = "interrupted"
    /\ UNCHANGED <<coins_config, reset_alerts_daily, stats_52w, file, today, dry_run,
                   sent_alerts, current_data, idx, ath_data, potential_alerts,
                   triggered_ath_keys, triggered_price_keys, alerts, new_sent_alerts,
                   saveCalls, posts, message, logged, delivery, athSeen, saveOutcome, fileAtStart,
                   validated, exit_status, sleepCalls, no_webhook_return,
                   updater_vars, gateway_vars>>

Next ==
    \/ \E dry \in BOOLEAN, d \in 1..MaxDate : MainStart(dry, d)
    \/ \E d \in 1..MaxDate : MainNoWebhook(d)
    \/ MainValidate
    \/ \E coins_doc \in CoinsDocs, alert_doc \in AlertDocs :
          ValidateConfigs(coins_doc, alert_doc)
    \/ \E s \in Snapshots : FetchPrices(s)
    \/ FetchFails
    \/ LoopSkip
    \/ LoopEnter
    \/ LoopExit
    \/ \E r \in AthResults : CheckAthAlerts(r)
    \/ Sleep
    \/ CheckPriceAlerts
    \/ SelectBest
    \/ \E outcome \in SaveOutcomes : SaveTracking(outcome)
    \/ SkipSave
    \/ NoAlerts
    \/ SendDryRun
    \/ \E outcome \in {"ok", "failed"} : SendDiscordAlert(outcome)
    \/ Interrupt

Spec == Init /\ [][Next]_vars

-----------------------------------------------------------------------------
(* The range cache refresher: update_52w_stats.py *)

\* RATE_LIMIT_SLEEP (3.0 seconds), the cooldown before the retry pass, and the
\* max_retries of the fetch calls of the first and of the retry pass
RateLimitSleep == 3
RetryCooldown == 60
FetchMaxRetries == 3
RetryPassMaxRetries == 2

\* coin_ids
CoinIds == IF coins_config.ok THEN <<"bitcoin", "ethereum">> ELSE <<>>

\* what fetch_52w_high_low returns: None or {high_52w, low_52w}
NoResult == [ok |-> FALSE, high_52w |-> 0, low_52w |-> 0]
FetchResults == {NoResult, [ok |-> TRUE, high_52w |-> 120, low_52w |-> 40]}

FetchRecord(pass, coin_id, max_retries, result) ==
    [pass |-> pass, coin_id |-> coin_id, max_retries |-> max_retries, ok |-> result.ok]

\* save_52w_stats: the file after the call
Save52wStats(data, f, outcome) ==
    CASE outcome = "ok" -> data
      [] outcome = "denied" -> f
      [] outcome = "partial" -> CorruptCache

\* is_stats_stale(s, max_age_days) is called
CheckStale(s, max_age_days) ==
    /\ u_pc = "idle"
    /\ is_stale' = [called |-> TRUE, last_updated_str |-> s,
                    max_age_days |-> max_age_days,
                    result |-> IsStatsStale(s, max_age_days)]
    /\ UNCHANGED statsFileAtStart
    /\ UNCHANGED <<stats_file, u_pc, u_idx, stats_data, failed_coins, fetchLog, sleepLog,
                   statsSaveOutcome, alert_vars, gateway_vars>>

\* mutant of UpdateStart: stats_data starts from the entries of the cache file
UpdateStartKeepsCache ==
    /\ u_pc \in {"idle", "done"}
    /\ u_pc' = IF coins_config.ok THEN "first" ELSE "done"
    /\ stats_data' = IF coins_config.ok
                     THEN [NewStatsData(today) EXCEPT !.coins = stats_file.coins]
                     ELSE NoCache
    /\ u_idx' = 0
    /\ failed_coins' = <<>>
    /\ fetchLog' = <<>>
    /\ sleepLog' = <<>>
    /\ is_stale' = NotAsked
    /\ statsSaveOutcome' = "none"
    /\ statsFileAtStart' = stats_file
    /\ UNCHANGED <<stats_file, alert_vars, gateway_vars>>

\* update_all_52w_stats starts: the coins configuration is loaded and stats_data
\* is prepared
UpdateStart ==
    /\ u_pc \in {"idle", "done"}
    /\ u_pc' = IF coins_config.ok THEN "first" ELSE "done"
    /\ stats_data' = IF coins_config.ok THEN NewStatsData(today) ELSE NoCache
    /\ u_idx' = 0
    /\ failed_coins' = <<>>
    /\ fetchLog' = <<>>
    /\ sleepLog' = <<>>
    /\ is_stale' = NotAsked
    /\ statsSaveOutcome' = "none"
    /\ statsFileAtStart' = stats_file
    /\ UNCHANGED <<stats_file, alert_vars, gateway_vars>>

\* one turn of "for idx, coin_id in enumerate(coin_ids, 1)"
FetchFirstPass(result) ==
    /\ u_pc = "first"
    /\ u_idx < Len(CoinIds)
    /\ LET coin_id == CoinIds[u_idx + 1]
       IN /\ fetchLog' = Append(fetchLog, FetchRecord(1, coin_id, FetchMaxRetries, result))
          /\ IF result.ok
             THEN /\ stats_data' =
                       [stats_data EXCEPT !.coins[coin_id] =
                           StatsEntry(result.high_52w, result.low_52w, today)]
                  /\ UNCHANGED failed_coins
             ELSE /\ failed_coins' = Append(failed_coins, coin_id)
                  /\ UNCHANGED stats_data
    /\ u_idx' = u_idx + 1
    /\ sleepLog' = IF u_idx + 1 < Len(CoinIds) THEN Append(sleepLog, RateLimitSleep)
                   ELSE sleepLog
    /\ UNCHANGED statsFileAtStart
    /\ UNCHANGED <<stats_file, u_pc, is_stale, statsSaveOutcome, alert_vars, gateway_vars>>

\* the first pass is over: "if failed_coins:" sleeps 60 s and starts the retry pass
FirstPassDone ==
    /\ u_pc = "first"
    /\ u_idx = Len(CoinIds)
    /\ IF failed_coins # <<>>
       THEN /\ sleepLog' = Append(sleepLog, RetryCooldown)
            /\ u_pc' = "retry"
       ELSE /\ UNCHANGED sleepLog
            /\ u_pc' = "save"
    /\ u_idx' = 0
    /\ UNCHANGED statsFileAtStart
    /\ UNCHANGED <<stats_file, stats_data, failed_coins, fetchLog, is_stale,
                   statsSaveOutcome, alert_vars, gateway_vars>>

\* mutant of FetchRetryPass: the retry pass walks the configured coins again
FetchRetryPassAllCoins(result) ==
    /\ u_pc = "retry"
    /\ u_idx < Len(failed_coins)
    /\ LET coin_id == CoinIds[u_idx + 1]
       IN /\ fetchLog' = Append(fetchLog,
                                FetchRecord(2, coin_id, RetryPassMaxRetries, result))
          /\ stats_data' =
                IF result.ok
                THEN [stats_data EXCEPT !.coins[coin_id] =
                         StatsEntry(result.high_52w, result.low_52w, today)]
                ELSE stats_data
    /\ u_idx' = u_idx + 1
    /\ sleepLog' = IF u_idx + 1 < Len(failed_coins) THEN Append(sleepLog, RateLimitSleep)
                   ELSE sleepLog
    /\ UNCHANGED statsFileAtStart
    /\ UNCHANGED <<stats_file, u_pc, failed_coins, is_stale, statsSaveOutcome,
                   alert_vars, gateway_vars>>

\* one turn of "for idx, coin_id in enumerate(failed_coins, 1)"
FetchRetryPass(result) ==
    /\ u_pc = "retry"
    /\ u_idx < Len(failed_coins)
    /\ LET coin_id == failed_coins[u_idx + 1]
       IN /\ fetchLog' = Append(fetchLog,
                                FetchRecord(2, coin_id, RetryPassMaxRetries, result))
          /\ stats_data' =
                IF result.ok
                THEN [stats_data EXCEPT !.coins[coin_id] =
                         StatsEntry(result.high_52w, result.low_52w, today)]
                ELSE stats_data
    /\ u_idx' = u_idx + 1
    /\ sleepLog' = IF u_idx + 1 < Len(failed_coins) THEN Append(sleepLog, RateLimitSleep)
                   ELSE sleepLog
    /\ UNCHANGED statsFileAtStart
    /\ UNCHANGED <<stats_file, u_pc, failed_coins, is_stale, statsSaveOutcome,
                   alert_vars, gateway_vars>>

\* the retry pass is over
RetryPassDone ==
    /\ u_pc = "retry"
    /\ u_idx = Len(failed_coins)
    /\ u_pc' = "save"
    /\ UNCHANGED statsFileAtStart
    /\ UNCHANGED <<stats_file, u_idx, stats_data, failed_coins, fetchLog, sleepLog,
                   is_stale, statsSaveOutcome, alert_vars, gateway_vars>>

\* "Save results": save_52w_stats is called when some coin was fetched
SaveStats(outcome) ==
    /\ u_pc = "save"
    /\ \E i \in Ids : stats_data.coins[i].present
    /\ stats_file' = Save52wStats(stats_data, stats_file, outcome)
    /\ statsSaveOutcome' = outcome
    /\ u_pc' = "done"
    /\ UNCHANGED statsFileAtStart
    /\ UNCHANGED <<u_idx, stats_data, failed_coins, fetchLog, sleepLog, is_stale,
                   alert_vars, gateway_vars>>

\* "No stats were successfully fetched, not saving"
SkipSaveStats ==
    /\ u_pc = "save"
    /\ \A i \in Ids : ~stats_data.coins[i].present
    /\ u_pc' = "done"
    /\ UNCHANGED statsFileAtStart
    /\ UNCHANGED <<stats_file, u_idx, stats_data, failed_coins, fetchLog, sleepLog,
                   is_stale, statsSaveOutcome, alert_vars, gateway_vars>>

\* the alert run is not running
AlertIdle ==
    /\ reset_alerts_daily = TRUE
    /\ stats_52w = NoStats
    /\ file = MissingFile
    /\ pc = "idle"
    /\ dry_run = FALSE
    /\ sent_alerts = [date |-> 1, sent |-> {}]
    /\ current_data = <<>>
    /\ idx = 0
    /\ ath_data = NoAth
    /\ potential_alerts = <<>>
    /\ triggered_ath_keys = <<>>
    /\ triggered_price_keys = <<>>
    /\ alerts = <<>>
    /\ new_sent_alerts = {}
    /\ saveCalls = 0
    /\ posts = 0
    /\ message = NoMessage
    /\ logged = <<>>
    /\ delivery = "none"
    /\ athSeen = <<>>
    /\ saveOutcome = "none"
    /\ fileAtStart = file
    /\ validated = NotValidated
    /\ exit_status = None
    /\ sleepCalls = 0
    /\ no_webhook_return = FALSE

UpdaterInit ==
    /\ coins_config \in Configs
    /\ today \in 1..MaxDate
    /\ AlertIdle
    /\ stats_file \in {NoCache, OldCache}
    /\ u_pc = "idle"
    /\ u_idx = 0
    /\ stats_data = NoCache
    /\ failed_coins = <<>>
    /\ fetchLog = <<>>
    /\ sleepLog = <<>>
    /\ is_stale = NotAsked
    /\ statsSaveOutcome = "none"
    /\ statsFileAtStart = stats_file
    /\ GatewayIdle

UpdaterNext ==
    \/ \E s \in DateStrings, max_age_days \in MaxAges : CheckStale(s, max_age_days)
    \/ UpdateStart
    \/ \E result \in FetchResults : FetchFirstPass(result)
    \/ FirstPassDone
    \/ \E result \in FetchResults : FetchRetryPass(result)
    \/ RetryPassDone
    \/ \E outcome \in SaveOutcomes : SaveStats(outcome)
    \/ SkipSaveStats

UpdaterSpec == UpdaterInit /\ [][UpdaterNext]_vars

\* the alert run with a configuration in which one coin or every coin has
\* drawdown thresholds
LookupInit ==
    /\ coins_config \in {CoinsA, CoinsB}
    /\ today = 1
    /\ AlertIdle
    /\ UpdaterIdle
    /\ GatewayIdle

LookupSpec == LookupInit /\ [][Next]_vars

-----------------------------------------------------------------------------
(* The gateway calls: get_current_prices and get_ath_price (crypto_alert.py) *)

\* max_retries of get_ath_price, and the seconds of its backoff unit
DefaultMaxRetries == 3
BackoffUnit == 5

\* how a requests.get(...) / raise_for_status() ends: a 200 body, a Timeout, an
\* HTTPError with status 429, 5xx or another status, a ConnectionError, or
\* another RequestException
Responses == {"ok", "timeout", "http429", "http5xx", "http4xx", "connection", "other"}

\* entries of g_log
Request(a, response) == [kind |-> "request", attempt |-> a, response |-> response, seconds |-> 0]
Slept(a, seconds) == [kind |-> "sleep", attempt |-> a, response |-> "", seconds |-> seconds]

\* get_current_prices(coin_ids) is called
CallGetCurrentPrices ==
    /\ g_pc \in {"idle", "returned"}
    /\ g_call' = [function |-> "get_current_prices", crypto_id |-> "", max_retries |-> 0]
    /\ g_pc' = "request"
    /\ attempt' = 0
    /\ g_log' = <<>>
    /\ g_result' = "none"
    /\ UNCHANGED <<alert_vars, updater_vars>>

\* get_current_prices: the single request and what is returned
PricesResponse(response) ==
    /\ g_pc = "request"
    /\ g_call.function = "get_current_prices"
    /\ g_log' = Append(g_log, Request(0, response))
    /\ g_result' = IF response = "ok" THEN "body" ELSE "None"
    /\ g_pc' = "returned"
    /\ UNCHANGED <<g_call, attempt, alert_vars, updater_vars>>

\* get_ath_price(crypto_id, max_retries) is called
CallGetAthPrice(crypto_id, max_retries) ==
    /\ g_pc \in {"idle", "returned"}
    /\ g_call' = [function |-> "get_ath_price", crypto_id |-> crypto_id,
                  max_retries |-> max_retries]
    /\ attempt' = 0
    /\ g_log' = <<>>
    /\ g_result' = "none"
    /\ g_pc' = "request"
    /\ UNCHANGED <<alert_vars, updater_vars>>

\* mutant of AthResponse: a timeout is not retried
AthResponseNoTimeoutRetry(response) ==
    /\ g_pc = "request"
    /\ g_call.function = "get_ath_price"
    /\ LET retry_wait == (attempt + 1) * BackoffUnit
           requested == Append(g_log, Request(attempt, response))
       IN CASE response = "ok" ->
                 /\ g_log' = requested
                 /\ g_result' = "body"
                 /\ g_pc' = "returned"
                 /\ UNCHANGED attempt
            [] response = "http429" ->
                 /\ g_log' = Append(requested, Slept(attempt, retry_wait))
                 /\ attempt' = attempt + 1
                 /\ IF attempt + 1 < g_call.max_retries
                    THEN g_pc' = "request" /\ UNCHANGED g_result
                    ELSE g_pc' = "returned" /\ g_result' = "None"
            [] OTHER ->
                 /\ g_log' = requested
                 /\ g_result' = "None"
                 /\ g_pc' = "returned"
                 /\ UNCHANGED attempt
    /\ UNCHANGED <<g_call, alert_vars, updater_vars>>

\* mutant of AthResponse: a 429 on the last attempt returns without the wait
AthResponseNoFinalSleep(response) ==
    /\ g_pc = "request"
    /\ g_call.function = "get_ath_price"
    /\ LET retry_wait == (attempt + 1) * BackoffUnit
           requested == Append(g_log, Request(attempt, response))
       IN CASE response = "ok" ->
                 /\ g_log' = requested
                 /\ g_result' = "body"
                 /\ g_pc' = "returned"
                 /\ UNCHANGED attempt
            [] response = "timeout" /\ attempt < g_call.max_retries - 1 ->
                 /\ g_log' = Append(requested, Slept(attempt, retry_wait))
                 /\ attempt' = attempt + 1
                 /\ g_pc' = "request"
                 /\ UNCHANGED g_result
            [] response = "timeout" /\ ~(attempt < g_call.max_retries - 1) ->
                 /\ g_log' = requested
                 /\ g_result' = "None"
                 /\ g_pc' = "returned"
                 /\ UNCHANGED attempt
            [] response = "http429" ->
                 /\ g_log' = IF attempt + 1 < g_call.max_retries
                             THEN Append(requested, Slept(attempt, retry_wait))
                             ELSE requested
                 /\ attempt' = attempt + 1
                 /\ IF attempt + 1 < g_call.max_retries
                    THEN g_pc' = "request" /\ UNCHANGED g_result
                    ELSE g_pc' = "returned" /\ g_result' = "None"
            [] OTHER ->
                 /\ g_log' = requested
                 /\ g_result' = "None"
                 /\ g_pc' = "returned"
                 /\ UNCHANGED attempt
    /\ UNCHANGED <<g_call, alert_vars, updater_vars>>

\* get_ath_price: one turn of "for attempt in range(max_retries)": the request,
\* and the handler of what it raised
AthResponse(response) ==
    /\ g_pc = "request"
    /\ g_call.function = "get_ath_price"
    /\ LET retry_wait == (attempt + 1) * BackoffUnit
           requested == Append(g_log, Request(attempt, response))
       IN CASE response = "ok" ->
                 /\ g_log' = requested
                 /\ g_result' = "body"
                 /\ g_pc' = "returned"
                 /\ UNCHANGED attempt
            [] response = "timeout" /\ attempt < g_call.max_retries - 1 ->
                 /\ g_log' = Append(requested, Slept(attempt, retry_wait))
                 /\ attempt' = attempt + 1
                 /\ g_pc' = "request"
                 /\ UNCHANGED g_result
            [] response = "timeout" /\ ~(attempt < g_call.max_retries - 1) ->
                 /\ g_log' = requested
                 /\ g_result' = "None"
                 /\ g_pc' = "returned"
                 /\ UNCHANGED attempt
            [] response = "http429" ->
                 \* "continue": the loop ends when this was the last attempt, and
                 \* the function returns None after the loop
                 /\ g_log' = Append(requested, Slept(attempt, retry_wait))
                 /\ attempt' = attempt + 1
                 /\ IF attempt + 1 < g_call.max_retries
                    THEN g_pc' = "request" /\ UNCHANGED g_result
                    ELSE g_pc' = "returned" /\ g_result' = "None"
            [] OTHER ->
                 /\ g_log' = requested
                 /\ g_result' = "None"
                 /\ g_pc' = "returned"
                 /\ UNCHANGED attempt
    /\ UNCHANGED <<g_call, alert_vars, updater_vars>>

GatewayInit ==
    /\ coins_config = CoinsA
    /\ today = 1
    /\ AlertIdle
    /\ UpdaterIdle
    /\ GatewayIdle

GatewayNext ==
    \/ CallGetCurrentPrices
    \/ \E response \in Responses : PricesResponse(response)
    \/ \E crypto_id \in Ids, max_retries \in 1..DefaultMaxRetries :
          CallGetAthPrice(crypto_id, max_retries)
    \/ \E response \in Responses : AthResponse(response)

GatewaySpec == GatewayInit /\ [][GatewayNext]_vars

\* every request ends (requests.get has timeout=30) and every sleep is finite:
\* a call that waits for a response gets one
GatewayFairness ==
    /\ WF_vars(\E response \in Responses : PricesResponse(response))
    /\ WF_vars(\E response \in Responses : AthResponse(response))

GatewayLiveSpec == GatewaySpec /\ GatewayFairness

-----------------------------------------------------------------------------
(* Vocabulary of the properties *)

SetMax(S) == CHOOSE x \in S : \A y \in S : y <= x
SetMin(S) == CHOOSE x \in S : \A y \in S : x <= y

\* the display label the alerts of a configured coin carry
Label(i) == <<coins_config.coins[i].name, coins_config.coins[i].symbol>>

\* the loop body has just finished for the configured entry current_data[idx]
EntryDone == pc = "loop" /\ idx >= 1 /\ Crypto.id \in Ids

\* the ATH lookup of the current entry succeeded
LookedUp == idx \in DOMAIN athSeen /\ athSeen[idx].kind = "ok"

\* thresholds T with dropPercent >= T, (ath - current) / ath * 100 >= T, whose key
\* is absent from the prior state
QualifyingThresholds ==
    IF LookedUp
    THEN {t \in Range(CoinConfig.ath_thresholds) :
            /\ 100 * (athSeen[idx].usd - Crypto.current_price) >= t * athSeen[idx].usd
            /\ <<Crypto.id, "ath", t>> \notin sent_alerts.sent}
    ELSE {}

\* targets P with current <= P whose key is absent from the prior state
QualifyingTargets ==
    {p \in Range(CoinConfig.price_alerts) :
        /\ Crypto.current_price <= p
        /\ <<Crypto.id, "price", p>> \notin sent_alerts.sent}

\* an alert of the class is in the result for the current entry's coin
Fired(class) ==
    \E i \in DOMAIN alerts : alerts[i].crypto = Label(Crypto.id) /\ alerts[i].type = class

Candidate(class) ==
    \E j \in DOMAIN potential_alerts : potential_alerts[j].type = class

\* keys of the class the run has added for the current entry's coin
AddedKeys(class) ==
    {k \in new_sent_alerts \ sent_alerts.sent : k[1] = Crypto.id /\ k[2] = class}

\* effective prices in hundredths: ath * (1 - R/100) and the target
DrawdownEffective == athSeen[idx].usd * (100 - SetMax(QualifyingThresholds))
TargetEffective == 100 * SetMin(QualifyingTargets)

-----------------------------------------------------------------------------
InForce(f) == f.status = "ok" /\ (f.date = today \/ ~reset_alerts_daily)

C2_NoResend ==
    /\ [](InForce(fileAtStart) /\ pc # "idle" /\ coins_config.ok =>
            \A i \in DOMAIN alerts : KeyOfAlert(alerts[i]) \notin fileAtStart.sent)
    /\ [][(pc = "save" /\ pc' = "returned" /\ ~dry_run /\ saveOutcome' # "denied"
              /\ saveOutcome' # "partial" /\ alerts # <<>>) =>
            /\ InForce(file')
            /\ KeysOfAlerts(alerts) \subseteq file'.sent
            /\ (InForce(file) => file.sent \subseteq file'.sent)]_vars
    /\ [][(today' = today /\ file' # file) => pc = "save"]_vars

\* a target that is reached again while its key is persisted stays silent
C2_Witness ==
    /\ pc = "returned"
    /\ ~dry_run
    /\ fileAtStart.status = "ok"
    /\ fileAtStart.date = today
    /\ <<"bitcoin", "price", 60>> \in fileAtStart.sent
    /\ \E i \in DOMAIN current_data :
          current_data[i].id = "bitcoin" /\ current_data[i].current_price <= 60
    /\ alerts = <<>>

(* C3 as stated: with drawdown thresholds and a successful ATH lookup, a    *)
(* drawdown alert is in the result for the coin if and only if some         *)
(* threshold qualifies.                                                     *)
C3_Original ==
    (EntryDone /\ CoinConfig.ath_thresholds # <<>> /\ LookedUp) =>
        (Fired("ath") <=> QualifyingThresholds # {})

(* C3 amended: a drawdown candidate is formed if and only if some threshold *)
(* qualifies, and the coin's alert is that drawdown alert if and only if,   *)
(* besides, no target candidate has a strictly lower effective price.       *)
C3_DrawdownFires ==
    (EntryDone /\ CoinConfig.ath_thresholds # <<>> /\ LookedUp) =>
        /\ Candidate("ath") <=> QualifyingThresholds # {}
        /\ Fired("ath") <=>
             /\ QualifyingThresholds # {}
             /\ ~(QualifyingTargets # {} /\ TargetEffective < DrawdownEffective)

\* the drop equals a threshold exactly and the drawdown alert is emitted
C3_Witness ==
    /\ EntryDone /\ LookedUp
    /\ 100 * (athSeen[idx].usd - Crypto.current_price) = 30 * athSeen[idx].usd
    /\ QualifyingThresholds = {30}
    /\ Fired("ath")

(* C4: when a threshold qualifies, the drawdown candidate reports the       *)
(* highest qualifying threshold and the ath keys added for the coin are     *)
(* exactly the keys of the qualifying thresholds.                           *)
C4_HighestThresholdAllMarked ==
    EntryDone =>
        /\ AddedKeys("ath") = {<<Crypto.id, "ath", t>> : t \in QualifyingThresholds}
        /\ QualifyingThresholds # {} =>
              \E j \in DOMAIN potential_alerts :
                  /\ potential_alerts[j].type = "ath"
                  /\ potential_alerts[j].threshold = {SetMax(QualifyingThresholds)}

\* two thresholds qualify at once and both keys are added
C4_Witness ==
    /\ EntryDone
    /\ QualifyingThresholds = {30, 50}
    /\ AddedKeys("ath") = {<<"bitcoin", "ath", 30>>, <<"bitcoin", "ath", 50>>}

(* C5 as stated: a target alert is in the result for the coin if and only   *)
(* if some target qualifies.                                                *)
C5_Original ==
    (EntryDone /\ CoinConfig.price_alerts # <<>>) =>
        (Fired("price") <=> QualifyingTargets # {})

(* C5 amended: a target candidate is formed if and only if some target      *)
(* qualifies; it reports the lowest qualifying target; exactly the keys of  *)
(* the qualifying targets are marked; and the coin's alert is that target   *)
(* alert if and only if, besides, no drawdown candidate has an effective    *)
(* price lower than or equal to the target.                                 *)
C5_TargetFires ==
    (EntryDone /\ CoinConfig.price_alerts # <<>>) =>
        /\ Candidate("price") <=> QualifyingTargets # {}
        /\ \A j \in DOMAIN potential_alerts :
              potential_alerts[j].type = "price" =>
                  potential_alerts[j].targetPrice = {SetMin(QualifyingTargets)}
        /\ AddedKeys("price") = {<<Crypto.id, "price", p>> : p \in QualifyingTargets}
        /\ Fired("price") <=>
             /\ QualifyingTargets # {}
             /\ ~(QualifyingThresholds # {} /\ DrawdownEffective <= TargetEffective)
        /\ \A i \in DOMAIN alerts :
              (alerts[i].crypto = Label(Crypto.id) /\ alerts[i].type = "price") =>
                  alerts[i].targetPrice = {SetMin(QualifyingTargets)}

\* two targets qualify and the target alert is emitted with the lower one
C5_Witness ==
    /\ EntryDone
    /\ QualifyingTargets = {60, 70}
    /\ Fired("price")
    /\ AddedKeys("price") = {<<"bitcoin", "price", 60>>, <<"bitcoin", "price", 70>>}

(* C6: with a drawdown and a target candidate for the same coin, the one    *)
(* emitted alert is the candidate with the lower effective price.           *)
C6_LowerEffectivePriceWins ==
    (EntryDone /\ QualifyingThresholds # {} /\ QualifyingTargets # {}) =>
        /\ Cardinality({i \in DOMAIN alerts : alerts[i].crypto = Label(Crypto.id)}) = 1
        /\ DrawdownEffective < TargetEffective =>
              (Fired("ath") /\ alerts[Len(alerts)].threshold = {SetMax(QualifyingThresholds)})
        /\ TargetEffective < DrawdownEffective =>
              (Fired("price") /\ alerts[Len(alerts)].targetPrice = {SetMin(QualifyingTargets)})

\* both candidates exist and the target, being lower, is the one emitted
C6_Witness ==
    /\ EntryDone
    /\ QualifyingThresholds # {} /\ QualifyingTargets # {}
    /\ TargetEffective < DrawdownEffective
    /\ Fired("price")

(* C7: load_sent_alerts yields an empty mapping stamped with today's date  *)
(* when the file is missing, unparseable or, with reset_alerts_daily, of    *)
(* another date; otherwise it yields the persisted document unchanged, so   *)
(* without reset_alerts_daily the keys survive a change of date.            *)
C7_LoadSentAlerts ==
    pc = "fetch" =>
        IF \/ file.status # "ok"
           \/ (reset_alerts_daily /\ file.date # today)
        THEN sent_alerts = [date |-> today, sent |-> {}]
        ELSE sent_alerts = [date |-> file.date, sent |-> file.sent]

\* reset_alerts_daily is off and the keys of an earlier date are loaded
C7_Witness ==
    /\ pc = "fetch"
    /\ ~reset_alerts_daily
    /\ file.status = "ok"
    /\ file.date # today
    /\ file.sent # {}
    /\ sent_alerts.sent = file.sent

\* what evaluation yields for entry k from the configuration, the snapshot,
\* the ATH results, the range stats and the prior dedup state
EvaluatedEntry(k, prior) ==
    LET e == current_data[k]
        coin == coins_config.coins[e.id]
        md == MarketData(e.current_price, stats_52w.coins[e.id])
        thresholds ==
            IF k \in DOMAIN athSeen /\ athSeen[k].kind = "ok"
            THEN TriggeredThresholds(coin, e.id, athSeen[k].usd, e.current_price, prior)
            ELSE <<>>
        targets == TriggeredTargets(coin, e.id, e.current_price, prior)
        candidates ==
            (IF thresholds # <<>>
             THEN <<AthAlert(coin, e.current_price, athSeen[k].usd, SeqMax(thresholds), md)>>
             ELSE <<>>)
            \o (IF targets # <<>>
                THEN <<PriceAlert(coin, e.current_price, SeqMin(targets), md)>>
                ELSE <<>>)
    IN IF candidates = <<>> THEN <<>> ELSE <<BestAlert(candidates)>>

RECURSIVE EvaluatedAlerts(_, _)
EvaluatedAlerts(k, prior) ==
    IF k = 0 THEN <<>>
    ELSE EvaluatedAlerts(k - 1, prior)
         \o (IF current_data[k].id \in Ids THEN EvaluatedEntry(k, prior) ELSE <<>>)

(* C8: the list check_alerts returns is determined by the configuration,    *)
(* the snapshot, the ATH results, the range stats and the prior dedup state *)
(* alone, so a dry run returns the list a live run returns for them.        *)
C8_DryRunSameAlerts ==
    (pc \in {"returned", "done"} /\ coins_config.ok) =>
        alerts = EvaluatedAlerts(Len(current_data),
                                 LoadSentAlerts(fileAtStart, today, reset_alerts_daily).sent)

\* a dry run has returned the two alerts evaluation yields
C8_Witness ==
    /\ pc = "returned"
    /\ dry_run
    /\ Len(alerts) = 2
    /\ alerts[1].type # alerts[2].type

(* C9: a dry run never calls save_sent_alerts and never posts to the        *)
(* webhook; the dedup-state file stays what it was when the run started.    *)
C9_DryRunNoWrites ==
    (dry_run /\ pc # "idle") =>
        /\ saveCalls = 0
        /\ posts = 0
        /\ file = fileAtStart

\* a dry run has ended with alerts and newly marked keys, and wrote nothing
C9_Witness ==
    /\ pc = "done"
    /\ dry_run
    /\ alerts # <<>>
    /\ new_sent_alerts # sent_alerts.sent
    /\ fileAtStart.status = "ok"

(* C10 as stated: the dry run produces the grouped composite message a live *)
(* run would deliver for the same alerts.                                   *)
C10_Original ==
    (pc = "done" /\ dry_run /\ alerts # <<>>) => message = Embed(alerts)

(* C10 amended: in a dry run send_discord_alert builds no composite         *)
(* message; it logs the alerts as evaluation returned them, ungrouped, and  *)
(* the outbound call and the dedup persistence are suppressed.              *)
C10_DryRunLogsOnly ==
    (pc = "done" /\ dry_run /\ alerts # <<>>) =>
        /\ message = NoMessage
        /\ logged = alerts
        /\ posts = 0
        /\ saveCalls = 0

\* a dry run has logged a target alert ahead of a drawdown alert, the order a
\* composite message would not keep
C10_Witness ==
    /\ pc = "done"
    /\ dry_run
    /\ Len(logged) = 2
    /\ logged[1].type = "price"
    /\ logged[2].type = "ath"


-----------------------------------------------------------------------------
(* C11: order of evaluation, persistence and delivery *)

\* C11 as stated: in a live run the dedup-state file is not written before the
\* webhook delivery has been attempted
C11_Original ==
    (~dry_run /\ saveCalls > 0) => posts > 0

\* C11: in a live run the order is evaluation, then persistence (inside
\* check_alerts), then webhook delivery (in main): save_sent_alerts is called only
\* after the loop has taken every entry, and whenever the POST has been made the
\* save call of the run has already happened
C11_EvaluatePersistDeliver ==
    /\ saveCalls > 0 => /\ idx = Len(current_data)
                        /\ pc \in {"returned", "done", "interrupted"}
    /\ posts > 0 => /\ ~dry_run
                    /\ alerts # <<>>
                    /\ saveCalls = 1
                    /\ pc = "done"

C11_Witness ==
    /\ pc = "done"
    /\ ~dry_run
    /\ posts = 1
    /\ saveCalls = 1
    /\ file # fileAtStart

-----------------------------------------------------------------------------
(* C12: the dedup-state file is rewritten exactly when a new key was marked *)

\* the state load_sent_alerts gave this run, and its mapping
PriorState == LoadSentAlerts(fileAtStart, today, reset_alerts_daily)
Prior == PriorState.sent

\* check_alerts went through its whole loop and returned
CycleComplete ==
    pc \in {"returned", "done"} /\ coins_config.ok /\ current_data # <<>>

\* C12: in a live run save_sent_alerts is called (once) if and only if the cycle
\* marked a key absent from the prior mapping; a successful save leaves the whole
\* mapping (prior keys and new keys) under the date stamp of the loaded state,
\* and without a call the file is unchanged
C12_RewriteIffNewKey ==
    (~dry_run /\ pc \in {"returned", "done"}) =>
        /\ saveCalls = 1 <=> (CycleComplete /\ new_sent_alerts \ Prior # {})
        /\ saveCalls \in {0, 1}
        /\ saveOutcome = "ok" =>
               file = Document(PriorState.date, Prior \cup new_sent_alerts)
        /\ saveCalls = 0 => file = fileAtStart

C12_Witness ==
    /\ ~dry_run
    /\ CycleComplete
    /\ Prior # {}
    /\ new_sent_alerts \ Prior # {}
    /\ saveOutcome = "ok"
    /\ file = Document(PriorState.date, new_sent_alerts)

-----------------------------------------------------------------------------
(* C13: a failed ATH lookup *)

\* get_ath_price returned None for entry k
LookupFailed(k) == k \in DOMAIN athSeen /\ athSeen[k].kind = "none"

\* C13: when get_ath_price returns None for an entry, the run is not ended; the
\* entry gets no drawdown alert and none of its {id}_ath_* keys is marked, its
\* targets are evaluated as usual (a target alert is emitted and the qualifying
\* target keys are marked exactly when a target qualifies), and the list the
\* cycle returns holds, for every entry, what evaluation yields for it
C13_FailedLookupSkipsDrawdownOnly ==
    /\ (pc = "aborted" /\ idx >= 1) => ~LookupFailed(idx)
    /\ (EntryDone /\ LookupFailed(idx)) =>
          /\ AddedKeys("ath") = {}
          /\ ~Fired("ath")
          /\ Fired("price") <=> QualifyingTargets # {}
          /\ AddedKeys("price") = {<<Crypto.id, "price", p>> : p \in QualifyingTargets}
    /\ (CycleComplete /\ \E k \in DOMAIN athSeen : LookupFailed(k)) =>
          /\ idx = Len(current_data)
          /\ alerts = EvaluatedAlerts(Len(current_data), Prior)

\* bitcoin's lookup failed; its target alert and ethereum's were both returned
C13_Witness ==
    /\ pc = "returned"
    /\ LookupFailed(1)
    /\ Len(alerts) = 2
    /\ alerts[1].type = "price" /\ alerts[1].crypto = Label("bitcoin")
    /\ alerts[2].type = "price" /\ alerts[2].crypto = Label("ethereum")
    /\ \A k \in new_sent_alerts : k[2] = "price"

-----------------------------------------------------------------------------
(* C14: an ATH response without market_data/ath/usd *)

\* C14 as stated: a malformed ATH body only skips that entry's drawdown
\* evaluation; the run goes on to the entry's targets and to the other entries
C14_MalformedBodySkipsDrawdownOnly ==
    \A k \in DOMAIN athSeen :
        athSeen[k].kind = "malformed" =>
            pc \in {"sleep", "price", "select", "loop", "save", "returned", "done",
                    "interrupted"}

-----------------------------------------------------------------------------
(* C15: a failed write of the dedup-state file *)

\* C15: when save_sent_alerts fails (permission or I/O error) check_alerts still
\* returns the alerts evaluation yields, and main, unless interrupted, posts
\* them in the embed
C15_SaveFailureStillDelivers ==
    saveOutcome \in {"denied", "partial"} =>
        /\ pc \in {"returned", "done", "interrupted"}
        /\ alerts # <<>>
        /\ alerts = EvaluatedAlerts(Len(current_data), Prior)
        /\ pc = "done" => (posts = 1 /\ message = Embed(alerts))

C15_Witness ==
    /\ pc = "done"
    /\ saveOutcome = "denied"
    /\ file = fileAtStart
    /\ posts = 1
    /\ delivery = "ok"
    /\ message = Embed(alerts)

-----------------------------------------------------------------------------
(* C16: an interrupted cycle *)

\* C16: as long as the run has not reached its save_sent_alerts call, and so
\* in particular when it is interrupted during the price fetch, an ATH lookup,
\* a sleep or evaluation, the dedup-state file is what it was when the run
\* started; the file only ever changes by the one save call of the run
C16_InterruptLeavesFileUntouched ==
    /\ saveCalls = 0 => file = fileAtStart
    /\ (pc = "interrupted" /\ saveCalls = 0) => posts = 0
    /\ file # fileAtStart =>
          /\ saveCalls = 1
          /\ saveOutcome \in {"ok", "partial"}
          /\ saveOutcome = "ok" => file.sent = new_sent_alerts

\* interrupted with keys marked in memory and nothing written
C16_Witness ==
    /\ pc = "interrupted"
    /\ saveCalls = 0
    /\ idx < Len(current_data)
    /\ new_sent_alerts \ Prior # {}
    /\ file = fileAtStart

-----------------------------------------------------------------------------
(* C17: one POST per cycle *)

\* the lines of the embed that present an alert
AlertLines(m) == SelectSeq(m.description, LAMBDA part : part.kind \in {"ath", "price"})

\* C17: a live run that ends makes exactly one POST when the alert list is not
\* empty and none when it is empty, whatever the number of alerts; the one POST
\* carries the embed of all the alerts (its title counts them, its description
\* has one line for each)
C17_SinglePost ==
    /\ posts \in {0, 1}
    /\ (pc = "done" /\ ~dry_run) => posts = (IF alerts # <<>> THEN 1 ELSE 0)
    /\ posts = 1 =>
          /\ message = Embed(alerts)
          /\ message.title = Len(alerts)
          /\ Len(AlertLines(message)) = Len(alerts)

\* two alerts went out in one POST
C17_Witness ==
    /\ pc = "done"
    /\ ~dry_run
    /\ Len(alerts) = 2
    /\ posts = 1
    /\ Len(AlertLines(message)) = 2

-----------------------------------------------------------------------------
(* C18: the sections of the composite message *)

\* positions of the parts of a kind in the posted description
PartsOfKind(kind) ==
    {i \in DOMAIN message.description : message.description[i].kind = kind}

\* the section a part stands in: the kind of the nearest heading above it
SectionOf(i) ==
    LET headings == {j \in 1..(i - 1) :
                       message.description[j].kind \in {"ath_header", "price_header"}}
    IN IF headings = {} THEN "none" ELSE message.description[SetMax(headings)].kind

\* the parts that present the alert
PartsOfAlert(alert) ==
    {i \in PartsOfKind("ath") \cup PartsOfKind("price") :
        message.description[i].line.crypto = alert.crypto}

\* C18: the posted message has the drawdown heading (once) if and only if some
\* alert is a drawdown alert, the target heading (once) if and only if some
\* alert is a target alert, and every alert is presented by exactly one block,
\* of its own class, standing in the section of its class
C18_SectionsByClass ==
    posts = 1 =>
        /\ PartsOfKind("ath_header") # {} <=> \E i \in DOMAIN alerts : alerts[i].type = "ath"
        /\ PartsOfKind("price_header") # {} <=> \E i \in DOMAIN alerts : alerts[i].type = "price"
        /\ Cardinality(PartsOfKind("ath_header")) <= 1
        /\ Cardinality(PartsOfKind("price_header")) <= 1
        /\ \A i \in DOMAIN alerts :
              /\ Cardinality(PartsOfAlert(alerts[i])) = 1
              /\ \A p \in PartsOfAlert(alerts[i]) :
                    /\ message.description[p].kind = alerts[i].type
                    /\ SectionOf(p) = (IF alerts[i].type = "ath" THEN "ath_header"
                                       ELSE "price_header")
                    /\ message.description[p].line =
                          (IF alerts[i].type = "ath" THEN AthLine(alerts[i])
                           ELSE PriceLine(alerts[i]))

\* a mixed batch was posted: both sections, one block in each
C18_Witness ==
    /\ posts = 1
    /\ Len(alerts) = 2
    /\ alerts[1].type = "price" /\ alerts[2].type = "ath"
    /\ PartsOfKind("ath_header") = {1}
    /\ PartsOfKind("price_header") = {4}
    /\ Len(message.description) = 5

-----------------------------------------------------------------------------
(* C19: the color of the embed *)

DrawdownAlerts(alert_list) == SelectSeq(alert_list, LAMBDA a : a.type = "ath")
TargetAlerts(alert_list) == SelectSeq(alert_list, LAMBDA a : a.type = "price")

\* the posted batch has alerts of both classes
MixedBatch ==
    posts = 1 /\ DrawdownAlerts(alerts) # <<>> /\ TargetAlerts(alerts) # <<>>

\* C19 as stated: the three kinds of batch get three different colors, so the
\* color of a mixed batch is neither the color of its drawdown alerts alone nor
\* the color of its target alerts alone
C19_Original ==
    MixedBatch =>
        /\ message.color # EmbedColor(DrawdownAlerts(alerts))
        /\ message.color # EmbedColor(TargetAlerts(alerts))
        /\ EmbedColor(DrawdownAlerts(alerts)) # EmbedColor(TargetAlerts(alerts))

\* C19: the color tells two kinds of batch apart: a posted batch is orange when
\* it holds target alerts only and red when it holds at least one drawdown alert
C19_TwoColors ==
    posts = 1 =>
        /\ message.color = (IF DrawdownAlerts(alerts) = <<>> THEN ColorOrange ELSE ColorRed)
        /\ message.color \in {ColorRed, ColorOrange}
        /\ ColorRed # ColorOrange

\* a mixed batch was posted in the color of a drawdown-only batch
C19_Witness ==
    /\ MixedBatch
    /\ message.color = ColorRed
    /\ message.color = EmbedColor(DrawdownAlerts(alerts))
    /\ EmbedColor(TargetAlerts(alerts)) = ColorOrange

-----------------------------------------------------------------------------
(* C20: the exit status of --validate *)

\* the file is missing, does not parse, or fails its structural check
CoinsFileInvalid(doc) == doc.status # "ok" \/ ValidateCoinsConfig(doc) # <<>>
AlertFileInvalid(doc) == doc.status # "ok" \/ ValidateAlertConfig(doc) # <<>>

\* C20 as stated: a --validate run exits with a nonzero status whenever either
\* configuration file is missing, malformed or fails a structural check, with
\* status 0 only when both are valid, and makes no price fetch, ATH lookup,
\* webhook call or dedup-state write
C20_ValidateExitStatus ==
    pc = "exited" =>
        /\ (CoinsFileInvalid(validated.coins) \/ AlertFileInvalid(validated.alert))
              => exit_status # Some(0)
        /\ exit_status = Some(0)
              => (~CoinsFileInvalid(validated.coins) /\ ~AlertFileInvalid(validated.alert))
        /\ exit_status \in {Some(0), Some(1)}
        /\ current_data = <<>> /\ athSeen = <<>>
        /\ posts = 0 /\ saveCalls = 0
        /\ file = fileAtStart

-----------------------------------------------------------------------------
(* C21: --validate reports every error *)

\* the type a field of a coin, or of the alert configuration, must have
\* (an integer field accepts a boolean, as isinstance(x, int) does)
RightType(field, tag) ==
    CASE field \in {"id", "name", "symbol", "alert_tracking_file"} -> tag \in {"str", "Str"}
      [] field \in {"ath_thresholds", "price_alerts"} -> tag = "list"
      [] field = "reset_alerts_daily" -> tag = "bool"
      [] field \in {"check_interval_minutes", "max_alerts_per_run"} -> tag \in {"num", "bool"}

CoinFields == {"id", "name", "symbol", "ath_thresholds", "price_alerts"}
AlertFields == {"reset_alerts_daily", "check_interval_minutes", "max_alerts_per_run",
                "alert_tracking_file"}

\* the errors of a list that name the coin, the field and the complaint
ErrorsAbout(errors, k, field, what) ==
    {j \in DOMAIN errors :
        errors[j].coin = k /\ errors[j].field = field /\ errors[j].what = what}

\* the coins document has a list under 'coins'
HasCoinList(doc) ==
    doc.status = "ok" /\ doc.truthy /\ doc.has_coins /\ doc.coins_is_list

\* C21: a --validate run reports, for every coin of the list, exactly one error
\* for each required field that is missing and exactly one for each field of the
\* wrong type; for the alert configuration it loaded, exactly one error for each
\* field of the wrong type, whether or not the coins configuration had errors
C21_ValidateReportsEveryError ==
    pc = "exited" =>
        /\ HasCoinList(validated.coins) =>
              \A k \in DOMAIN validated.coins.coins : \A f \in CoinFields :
                  LET tag == validated.coins.coins[k][f]
                  IN /\ Cardinality(ErrorsAbout(validated.coins_errors, k, f, "missing"))
                          = (IF tag = "absent" THEN 1 ELSE 0)
                     /\ Cardinality(ErrorsAbout(validated.coins_errors, k, f, "type"))
                          = (IF tag # "absent" /\ ~RightType(f, tag) THEN 1 ELSE 0)
        /\ LoadAlertConfig(validated.alert).truthy =>
              \A f \in AlertFields :
                  LET tag == LoadAlertConfig(validated.alert)[f]
                  IN Cardinality(ErrorsAbout(validated.alert_errors, 0, f, "type"))
                          = (IF tag # "absent" /\ ~RightType(f, tag) THEN 1 ELSE 0)

\* a run reported the four errors of the second coin and the three of the alert file
C21_Witness ==
    /\ pc = "exited"
    /\ HasCoinList(validated.coins)
    /\ Cardinality(ErrorsAbout(validated.coins_errors, 2, "symbol", "missing")) = 1
    /\ Cardinality(ErrorsAbout(validated.coins_errors, 2, "price_alerts", "missing")) = 1
    /\ Cardinality(ErrorsAbout(validated.coins_errors, 2, "ath_thresholds", "type")) = 1
    /\ Len(validated.coins_errors) = 4
    /\ Len(validated.alert_errors) = 3
    /\ exit_status = Some(1)

-----------------------------------------------------------------------------
(* C22: the range stats do not influence the decisions *)

\* range-stats data to compare a run with: no entry, the entry of the run, and
\* entries with other values for every coin
OtherStats ==
    [last_updated |-> Some(1),
     coins |-> [i \in Ids \cup {Unlisted} |-> Some([high_52w |-> 90, low_52w |-> 60])]]
RangeVariants == StatsFiles \cup {OtherStats}

\* an alert without its range fields
StripRange(alert) ==
    [alert EXCEPT !.high52w = None, !.low52w = None,
                  !.pctFrom52wHigh = None, !.pctFrom52wLow = None]
StripRangeAll(alert_list) == [i \in DOMAIN alert_list |-> StripRange(alert_list[i])]

\* what evaluation yields for entry k when the range stats are the given ones
EvaluatedEntryGiven(k, prior, stats) ==
    LET e == current_data[k]
        coin == coins_config.coins[e.id]
        md == MarketData(e.current_price, stats.coins[e.id])
        thresholds ==
            IF k \in DOMAIN athSeen /\ athSeen[k].kind = "ok"
            THEN TriggeredThresholds(coin, e.id, athSeen[k].usd, e.current_price, prior)
            ELSE <<>>
        targets == TriggeredTargets(coin, e.id, e.current_price, prior)
        candidates ==
            (IF thresholds # <<>>
             THEN <<AthAlert(coin, e.current_price, athSeen[k].usd, SeqMax(thresholds), md)>>
             ELSE <<>>)
            \o (IF targets # <<>>
                THEN <<PriceAlert(coin, e.current_price, SeqMin(targets), md)>>
                ELSE <<>>)
    IN IF candidates = <<>> THEN <<>> ELSE <<BestAlert(candidates)>>

RECURSIVE EvaluatedAlertsGiven(_, _, _)
EvaluatedAlertsGiven(k, prior, stats) ==
    IF k = 0 THEN <<>>
    ELSE EvaluatedAlertsGiven(k - 1, prior, stats)
         \o (IF current_data[k].id \in Ids THEN EvaluatedEntryGiven(k, prior, stats) ELSE <<>>)

\* C22: with the configuration, the snapshot, the ATH results and the prior
\* state of the run, any other range-stats data (no entry, other values) yields
\* the same alerts up to the fields high52w, low52w, pctFrom52wHigh and
\* pctFrom52wLow; and the keys an entry marks are those of its qualifying
\* thresholds and targets, which the range stats do not enter
C22_RangeStatsOnlyInformational ==
    /\ CycleComplete =>
          \A stats \in RangeVariants :
              StripRangeAll(alerts) =
                  StripRangeAll(EvaluatedAlertsGiven(Len(current_data), Prior, stats))
    /\ EntryDone =>
          /\ AddedKeys("ath") = {<<Crypto.id, "ath", t>> : t \in QualifyingThresholds}
          /\ AddedKeys("price") = {<<Crypto.id, "price", p>> : p \in QualifyingTargets}

\* a run with a range entry returned an alert that carries the range fields and
\* differs from the alert of a run without the entry in these fields only
C22_Witness ==
    /\ CycleComplete
    /\ alerts # <<>>
    /\ alerts[1].high52w = Some(110)
    /\ alerts[1].pctFrom52wLow # None
    /\ alerts # EvaluatedAlertsGiven(Len(current_data), Prior, NoStats)
    /\ alerts # EvaluatedAlertsGiven(Len(current_data), Prior, OtherStats)
    /\ StripRangeAll(alerts) =
          StripRangeAll(EvaluatedAlertsGiven(Len(current_data), Prior, NoStats))

-----------------------------------------------------------------------------
(* C23: a stale range cache *)

\* the range cache is older than max_age_days on the day of the run
RangeCacheStale ==
    \/ stats_52w.last_updated = None
    \/ today - Val(stats_52w.last_updated) > DefaultMaxAgeDays

\* the range entry of the coin an alert is about
RangeEntryOf(alert) == stats_52w.coins[AlertId(alert)]

\* C23 as stated: with a stale range cache the alerts are emitted without range
\* fields
C23_Original ==
    (CycleComplete /\ RangeCacheStale) =>
        \A i \in DOMAIN alerts :
            /\ alerts[i].high52w = None /\ alerts[i].low52w = None
            /\ alerts[i].pctFrom52wHigh = None /\ alerts[i].pctFrom52wLow = None

\* C23: with a stale range cache evaluation proceeds as with a fresh one, and
\* every alert carries the range fields computed from the entry the cache holds
\* for its coin; they are absent only when the cache has no entry for the coin
C23_StaleCacheStillUsed ==
    (CycleComplete /\ RangeCacheStale) =>
        /\ alerts = EvaluatedAlerts(Len(current_data), Prior)
        /\ \A i \in DOMAIN alerts :
              /\ alerts[i].high52w =
                    (IF RangeEntryOf(alerts[i]) = None THEN None
                     ELSE Some(Val(RangeEntryOf(alerts[i])).high_52w))
              /\ alerts[i].low52w =
                    (IF RangeEntryOf(alerts[i]) = None THEN None
                     ELSE Some(Val(RangeEntryOf(alerts[i])).low_52w))
              /\ alerts[i].pctFrom52wHigh = None <=> RangeEntryOf(alerts[i]) = None
              /\ alerts[i].pctFrom52wLow = None <=> RangeEntryOf(alerts[i]) = None

\* the cache is eight days old and the alert carries its high and low
C23_Witness ==
    /\ CycleComplete
    /\ stats_52w.last_updated # None
    /\ today - Val(stats_52w.last_updated) = DefaultMaxAgeDays + 1
    /\ alerts # <<>>
    /\ alerts[1].high52w = Some(110)
    /\ alerts[1].low52w = Some(50)
    /\ alerts[1].pctFrom52wHigh # None

-----------------------------------------------------------------------------
(* C24: is_stats_stale *)

\* C24: is_stats_stale(d, max_age_days) is True exactly when d is None, d is
\* not a valid YYYY-MM-DD date, or today minus d is strictly more than
\* max_age_days days
C24_IsStatsStale ==
    is_stale.called =>
        LET d == is_stale.last_updated_str
        IN is_stale.result <=>
               \/ d.kind = "none"
               \/ ~Parses(d)
               \/ today - ParseDate(d) > is_stale.max_age_days

\* asked about a date exactly seven days old, the answer was False
C24_Witness ==
    /\ is_stale.called
    /\ Parses(is_stale.last_updated_str)
    /\ is_stale.max_age_days = DefaultMaxAgeDays
    /\ today - ParseDate(is_stale.last_updated_str) = DefaultMaxAgeDays
    /\ is_stale.result = FALSE
-----------------------------------------------------------------------------
(* C25: the refresher's retry pass and what it saves *)

\* the fetch_52w_high_low calls of a pass, in order
PassRecords(pass) == SelectSeq(fetchLog, LAMBDA r : r.pass = pass)

\* the coins whose fetch succeeded, in the first or in the retry pass
FetchedCoins == {fetchLog[k].coin_id : k \in {j \in DOMAIN fetchLog : fetchLog[j].ok}}

\* the coins whose fetch failed in the first pass
FailedFirstPass ==
    {fetchLog[k].coin_id :
        k \in {j \in DOMAIN fetchLog : fetchLog[j].pass = 1 /\ ~fetchLog[j].ok}}

\* C25: when update_all_52w_stats has ended and at least one fetch succeeded,
\* save_52w_stats was called with (and, when the write succeeded, the cache file
\* holds) an entry for every coin whose fetch succeeded in the first or in the
\* retry pass.  There is at most one retry pass: a coin is fetched at most once
\* in it, only when its first-pass fetch failed, only after the whole first
\* pass and after the 60 s cooldown (the logs only grow, so the cooldown is in
\* sleepLog as soon as the first retry fetch is in fetchLog).
C25_RetryPassAndSavedCache ==
    /\ (u_pc = "done" /\ FetchedCoins # {}) =>
          /\ statsSaveOutcome # "none"
          /\ \A c \in FetchedCoins : stats_data.coins[c].present
          /\ statsSaveOutcome = "ok" => stats_file = stats_data
    /\ \A j, k \in DOMAIN fetchLog :
          /\ (fetchLog[j].pass = 2 /\ fetchLog[k].pass = 2 /\ j # k)
                => fetchLog[j].coin_id # fetchLog[k].coin_id
          /\ (fetchLog[j].pass = 2 /\ fetchLog[k].pass = 1) => k < j
    /\ \A j \in DOMAIN fetchLog :
          fetchLog[j].pass = 2 => fetchLog[j].coin_id \in FailedFirstPass
    /\ PassRecords(2) # <<>> =>
          /\ Len(PassRecords(1)) = Len(CoinIds)
          /\ \E k \in DOMAIN sleepLog :
                /\ sleepLog[k] = RetryCooldown
                /\ k = Len(PassRecords(1))

\* a coin failed in the first pass, was fetched in the retry pass, and is in
\* the cache file the run wrote
C25_Witness ==
    /\ u_pc = "done"
    /\ statsSaveOutcome = "ok"
    /\ \E j, k \in DOMAIN fetchLog :
          /\ fetchLog[j].pass = 1 /\ ~fetchLog[j].ok
          /\ fetchLog[k].pass = 2 /\ fetchLog[k].ok
          /\ fetchLog[j].coin_id = fetchLog[k].coin_id
          /\ stats_file.coins[fetchLog[k].coin_id].present
    /\ \E c \in Ids : c \notin FailedFirstPass /\ stats_file.coins[c].present

-----------------------------------------------------------------------------
(* C26: a configured coin the snapshot does not hold *)

\* the identifiers of the snapshot, and the configured coins it lacks
SnapshotIds == {current_data[k].id : k \in DOMAIN current_data}
MissingCoins == Ids \ SnapshotIds

\* C26: in a cycle whose snapshot is not empty, a configured coin without an
\* entry in the snapshot gets no candidate and no alert, none of its keys is
\* marked, and no get_ath_price call is made for it (every call is made for an
\* entry of the snapshot); the loop still takes every entry of the snapshot and
\* the returned alerts are those the entries yield by themselves, whichever
\* configured coins are missing
C26_MissingAssetSkipped ==
    (coins_config.ok /\ current_data # <<>>) =>
        /\ \A i \in MissingCoins :
              /\ \A k \in DOMAIN alerts : alerts[k].crypto # Label(i)
              /\ \A k \in DOMAIN potential_alerts : potential_alerts[k].crypto # Label(i)
              /\ \A key \in new_sent_alerts \ sent_alerts.sent : key[1] # i
        /\ \A k \in DOMAIN athSeen :
              k \in DOMAIN current_data /\ current_data[k].id \notin MissingCoins
        /\ pc \in {"returned", "done"} => idx = Len(current_data)
        /\ CycleComplete =>
              alerts = EvaluatedAlertsGiven(Len(current_data), Prior, stats_52w)

\* bitcoin is configured and missing from the snapshot; the cycle ended with an
\* alert for ethereum, a marked ethereum key and no lookup
C26_Witness ==
    /\ CycleComplete
    /\ "bitcoin" \in MissingCoins
    /\ "ethereum" \in SnapshotIds
    /\ Len(alerts) = 1
    /\ alerts[1].crypto = Label("ethereum")
    /\ new_sent_alerts \ Prior # {}
    /\ athSeen = <<>>

-----------------------------------------------------------------------------
(* C29: the ATH lookups of a cycle are sequential and separated by the sleep *)

\* the get_ath_price calls of this run that have returned
LookupsEnded == Cardinality(DOMAIN athSeen)

\* C29: check_alerts makes its lookups one at a time, in snapshot order: while
\* a lookup is in progress (pc = "ath") every earlier lookup has returned and
\* is for an earlier entry, and time.sleep(1.5) has been called once for each
\* of them, whatever they returned; the sleep is taken right after a lookup
\* returns, and a lookup that raises ends the cycle instead
C29_LookupsSequentialWithSleep ==
    /\ [](pc = "ath" =>
            /\ idx \notin DOMAIN athSeen
            /\ \A k \in DOMAIN athSeen : k < idx
            /\ sleepCalls = LookupsEnded)
    /\ [](pc = "sleep" => idx \in DOMAIN athSeen /\ sleepCalls = LookupsEnded - 1)
    /\ [](sleepCalls <= LookupsEnded /\ LookupsEnded <= sleepCalls + 1)
    /\ [][(pc = "ath" /\ pc' # "ath") => pc' \in {"sleep", "aborted", "interrupted"}]_vars
    /\ [][(pc = "ath" /\ pc' = "aborted") => athSeen'[idx].kind = "malformed"]_vars

\* the second lookup of a cycle starts after the first one failed and the sleep
\* was taken
C29_Witness ==
    /\ pc = "ath"
    /\ idx = 2
    /\ LookupFailed(1)
    /\ sleepCalls = 1

-----------------------------------------------------------------------------
(* C30: which entries of the snapshot get an ATH lookup *)

\* the entries of the snapshot whose coin is configured with drawdown thresholds
ThresholdedEntries ==
    {k \in DOMAIN current_data :
        /\ current_data[k].id \in Ids
        /\ coins_config.coins[current_data[k].id].ath_thresholds # <<>>}

\* C30: get_ath_price is called only for entries of the snapshot whose coin is
\* configured with a non-empty ath_thresholds list, a call is never made twice
\* for an entry, and a cycle that runs through the whole snapshot has called it
\* for each such entry
C30_LookupPerThresholdedEntry ==
    /\ [](coins_config.ok => DOMAIN athSeen \subseteq ThresholdedEntries)
    /\ [](pc = "ath" => idx \in ThresholdedEntries)
    /\ [](CycleComplete => DOMAIN athSeen = ThresholdedEntries)
    /\ [][(pc = "ath" /\ pc' \in {"sleep", "aborted"}) =>
             /\ idx \notin DOMAIN athSeen
             /\ DOMAIN athSeen' = DOMAIN athSeen \cup {idx}]_vars
    /\ [][(pc # "ath" /\ ~Terminated) => athSeen' = athSeen]_vars

\* a complete cycle over a coin without thresholds and a coin with thresholds
\* made exactly one lookup, for the second entry
C30_Witness ==
    /\ CycleComplete
    /\ coins_config = CoinsA
    /\ Len(current_data) = 2
    /\ current_data[1].id = "ethereum"
    /\ current_data[2].id = "bitcoin"
    /\ DOMAIN athSeen = {2}

-----------------------------------------------------------------------------
(* C27: the retry policy of get_ath_price *)

InAthCall == g_call.function = "get_ath_price"

\* the positions of the requests in g_log, and the number of requests made
RequestPositions == {k \in DOMAIN g_log : g_log[k].kind = "request"}
RequestsMade == Cardinality(RequestPositions)

\* the turn of the loop that made the request at position k has a next turn
HasNextTurn(k) == g_log[k].attempt + 1 < g_call.max_retries

\* the request at position k ended the call with the given result
EndsCall(k, result) == k = Len(g_log) /\ g_pc = "returned" /\ g_result = result

\* the request at position k is followed by the wait of its attempt and, when
\* the loop has a next turn, by the next request
FollowedByRetry(k) ==
    /\ k < Len(g_log)
    /\ g_log[k + 1] = Slept(g_log[k].attempt, (g_log[k].attempt + 1) * BackoffUnit)
    /\ IF HasNextTurn(k)
       THEN \/ k + 1 = Len(g_log) /\ g_pc = "request" /\ attempt = g_log[k].attempt + 1
            \/ k + 1 < Len(g_log) /\ g_log[k + 2].kind = "request"
                                   /\ g_log[k + 2].attempt = g_log[k].attempt + 1
       ELSE k + 1 = Len(g_log) /\ g_pc = "returned" /\ g_result = "None"

\* C27 as stated: only a 429 is retried, with at most max_retries attempts and
\* a wait of attempt * 5 seconds; a timeout or any other failure ends the call
\* with failure after that single attempt
C27_Original ==
    InAthCall =>
        /\ RequestsMade <= g_call.max_retries
        /\ \A k \in RequestPositions :
              CASE g_log[k].response = "http429" -> FollowedByRetry(k)
                [] g_log[k].response = "ok" -> EndsCall(k, "body")
                [] OTHER -> EndsCall(k, "None")

\* C27 (amended): get_ath_price makes at most max_retries requests; a 429, and
\* a timeout that is not on the last allowed attempt, is followed by a wait of
\* 5 s times the number of requests made so far and then by the next request
\* (after a 429 on the last attempt the wait is followed by failure); a timeout
\* on the last attempt, a 5xx or other HTTP status, a connection error or any
\* other request error ends the call with failure at once, and a 200 ends it
\* with the body
C27_RetryOnRateLimitAndTimeout ==
    InAthCall =>
        /\ RequestsMade <= g_call.max_retries
        /\ \A k \in RequestPositions :
              CASE g_log[k].response = "http429" -> FollowedByRetry(k)
                [] g_log[k].response = "timeout" /\ HasNextTurn(k) -> FollowedByRetry(k)
                [] g_log[k].response = "ok" -> EndsCall(k, "body")
                [] OTHER -> EndsCall(k, "None")
        /\ \A k \in DOMAIN g_log \ RequestPositions :
              k > 1 /\ g_log[k - 1].kind = "request"
                    /\ g_log[k - 1].response \in {"http429", "timeout"}

\* a call with max_retries = 3 that met a timeout, then a 429, then a 200
C27_Witness ==
    /\ InAthCall
    /\ g_call.max_retries = DefaultMaxRetries
    /\ g_pc = "returned"
    /\ g_result = "body"
    /\ g_log = <<Request(0, "timeout"), Slept(0, 5),
                 Request(1, "http429"), Slept(1, 10), Request(2, "ok")>>

-----------------------------------------------------------------------------
(* C28: retries of the gateway calls on transient errors *)

\* timeout, rate limit and server error
TransientErrors == {"timeout", "http429", "http5xx"}

\* C28: in every gateway call that has returned, a request that met a transient
\* error was followed by a backoff wait and a further request, unless it was the
\* last of the attempts the call is allowed
C28_TransientErrorsRetried ==
    g_pc = "returned" =>
        \A k \in RequestPositions :
            g_log[k].response \in TransientErrors =>
                \/ /\ k + 2 <= Len(g_log)
                   /\ g_log[k + 1].kind = "sleep"
                   /\ g_log[k + 2].kind = "request"
                \/ InAthCall /\ ~HasNextTurn(k)

-----------------------------------------------------------------------------
(* C31: the thresholds a drawdown candidate subsumes *)

\* C31: when the loop body has ended for an entry with a drawdown candidate of
\* representative threshold R (the highest qualifying threshold), the key of
\* every configured threshold T <= R of the coin is in new_sent_alerts: T has
\* qualified and was marked in this cycle, or its key was in the prior state
C31_SubsumedThresholdsMarked ==
    (EntryDone /\ Candidate("ath")) =>
        /\ QualifyingThresholds # {}
        /\ \A T \in Range(CoinConfig.ath_thresholds) :
              T <= SetMax(QualifyingThresholds) =>
                  /\ <<Crypto.id, "ath", T>> \in new_sent_alerts
                  /\ \/ T \in QualifyingThresholds
                     \/ <<Crypto.id, "ath", T>> \in sent_alerts.sent

\* threshold 50 qualifies while the key of threshold 30 was sent before: both
\* keys are in the new state
C31_Witness ==
    /\ EntryDone
    /\ QualifyingThresholds = {50}
    /\ <<"bitcoin", "ath", 30>> \in sent_alerts.sent
    /\ {<<"bitcoin", "ath", 30>>, <<"bitcoin", "ath", 50>>} \subseteq new_sent_alerts

-----------------------------------------------------------------------------
(* C32: the percentages of an alert *)

\* the alerts formed in this run: the candidates and the returned alerts
FormedAlerts == Range(alerts) \cup {[a EXCEPT !.score = None] : a \in Range(potential_alerts)}

\* round(num / den * 100, 2) in hundredths of a percent, for den > 0
Hundredths(num, den) == (20000 * num + den) \div (2 * den)

\* C32 as stated: every percentage is (reference - current) / reference * 100
C32_Original ==
    coins_config.ok =>
        \A a \in FormedAlerts :
            /\ a.type = "ath" =>
                  a.dropPercent = {Hundredths(Val(a.athPrice) - a.currentPrice, Val(a.athPrice))}
            /\ (a.type = "price" /\ Val(a.targetPrice) > 0) =>
                  a.priceDiffPercent =
                      {Hundredths(Val(a.targetPrice) - a.currentPrice, Val(a.targetPrice))}
            /\ a.pctFrom52wHigh # None =>
                  a.pctFrom52wHigh =
                      {Hundredths(Val(a.high52w) - a.currentPrice, Val(a.high52w))}
            /\ a.pctFrom52wLow # None =>
                  a.pctFrom52wLow =
                      {Hundredths(Val(a.low52w) - a.currentPrice, Val(a.low52w))}

\* C32 (amended): no percentage is clamped; dropPercent is
\* (ath - current) / ath * 100, positive for a price below the ATH, while
\* priceDiffPercent is (current - target) / target * 100 and the 52-week range
\* percentages are (current - high) / high * 100 and (current - low) / low * 100,
\* negative for a price below their reference
C32_SignedPercentages ==
    coins_config.ok =>
        \A a \in FormedAlerts :
            /\ a.type = "ath" =>
                  a.dropPercent = {Hundredths(Val(a.athPrice) - a.currentPrice, Val(a.athPrice))}
            /\ (a.type = "price" /\ Val(a.targetPrice) > 0) =>
                  /\ a.priceDiffPercent =
                        {Hundredths(a.currentPrice - Val(a.targetPrice), Val(a.targetPrice))}
                  /\ a.currentPrice < Val(a.targetPrice) => Val(a.priceDiffPercent) < 0
            /\ a.pctFrom52wHigh # None =>
                  /\ a.pctFrom52wHigh =
                        {Hundredths(a.currentPrice - Val(a.high52w), Val(a.high52w))}
                  /\ a.currentPrice < Val(a.high52w) => Val(a.pctFrom52wHigh) < 0
            /\ a.pctFrom52wLow # None =>
                  /\ a.pctFrom52wLow =
                        {Hundredths(a.currentPrice - Val(a.low52w), Val(a.low52w))}
                  /\ a.currentPrice < Val(a.low52w) => Val(a.pctFrom52wLow) < 0
                  /\ a.currentPrice > Val(a.low52w) => Val(a.pctFrom52wLow) > 0

\* a target alert for a price below its target and below the 52-week low
C32_Witness ==
    \E a \in Range(alerts) :
        /\ a.type = "price"
        /\ a.currentPrice < Val(a.targetPrice)
        /\ Val(a.priceDiffPercent) < 0
        /\ a.pctFrom52wLow # None
        /\ Val(a.pctFrom52wLow) < 0
        /\ Val(a.pctFrom52wHigh) < 0

-----------------------------------------------------------------------------
(* C33: a representative target of 0 *)

\* C33: when the lowest qualifying target of an entry is 0, the loop body ends
\* without an exception, the target candidate is formed with targetPrice 0 and
\* priceDiffPercent 0, and it is the alert returned for the coin
C33_ZeroTarget ==
    /\ (EntryDone /\ QualifyingTargets # {} /\ SetMin(QualifyingTargets) = 0) =>
          /\ \E j \in DOMAIN potential_alerts :
                /\ potential_alerts[j].type = "price"
                /\ potential_alerts[j].targetPrice = {0}
                /\ potential_alerts[j].priceDiffPercent = {0}
          /\ \E i \in DOMAIN alerts :
                /\ alerts[i].crypto = Label(Crypto.id)
                /\ alerts[i].type = "price"
                /\ alerts[i].targetPrice = {0}
                /\ alerts[i].priceDiffPercent = {0}
    /\ (pc = "aborted") => (idx \in DOMAIN athSeen /\ athSeen[idx].kind = "malformed")

\* the price is 0 and the target 0 is the representative target
C33_Witness ==
    /\ EntryDone
    /\ Crypto.current_price = 0
    /\ QualifyingTargets = {0}
    /\ Fired("price")
    /\ alerts[Len(alerts)].priceDiffPercent = {0}

-----------------------------------------------------------------------------
(* C34: both classes are marked when one alert is emitted *)

\* the alerts returned for the current entry's coin
AlertsOfEntry == {i \in DOMAIN alerts : alerts[i].crypto = Label(Crypto.id)}

\* C34: when an entry has a drawdown and a target candidate, one alert is
\* returned for the coin and the keys of all qualifying thresholds and of all
\* qualifying targets are marked; a live run whose write succeeds leaves every
\* marked key in the file; and in a run that starts from a file in force, no
\* candidate of either class is formed from a threshold or target whose key
\* the file holds, so the returned alert of a coin never carries such a key
C34_BothClassesMarked ==
    /\ [](EntryDone /\ Candidate("ath") /\ Candidate("price") =>
            /\ Cardinality(AlertsOfEntry) = 1
            /\ QualifyingThresholds # {} /\ QualifyingTargets # {}
            /\ {<<Crypto.id, "ath", t>> : t \in QualifyingThresholds} \subseteq new_sent_alerts
            /\ {<<Crypto.id, "price", p>> : p \in QualifyingTargets} \subseteq new_sent_alerts)
    /\ [](pc \in {"returned", "done"} /\ ~dry_run /\ saveOutcome = "ok" =>
            InForce(file) /\ new_sent_alerts \subseteq file.sent)
    /\ [](EntryDone /\ InForce(fileAtStart) =>
            /\ \A j \in DOMAIN potential_alerts :
                  KeyOfAlert(potential_alerts[j]) \notin fileAtStart.sent
            /\ \A k \in Range(triggered_ath_keys) \cup Range(triggered_price_keys) :
                  k \notin fileAtStart.sent
            /\ \A i \in AlertsOfEntry : KeyOfAlert(alerts[i]) \notin fileAtStart.sent)

\* a later live run of the same date: the file holds the drawdown key and the
\* target key of bitcoin, both conditions hold again, and nothing is returned
C34_Witness ==
    /\ EntryDone
    /\ ~dry_run
    /\ fileAtStart.status = "ok" /\ fileAtStart.date = today
    /\ fileAtStart.sent = {<<"bitcoin", "ath", 30>>, <<"bitcoin", "price", 70>>}
    /\ Crypto.id = "bitcoin" /\ Crypto.current_price = 70
    /\ LookedUp
    /\ potential_alerts = <<>>
    /\ AlertsOfEntry = {}

-----------------------------------------------------------------------------
(* C35: a failed delivery keeps the dedup marks *)

\* C35: the webhook POST of a live run, delivered or not, leaves the
\* dedup-state file as check_alerts wrote it; after a failed delivery in a run
\* whose write succeeded the keys of the undelivered alerts are in the file,
\* which is in force; and a run that starts from a file in force returns no
\* alert whose key the file holds
C35_FailedDeliveryKeepsMarks ==
    /\ [][(pc = "returned" /\ pc' = "done") => file' = file]_vars
    /\ [](pc = "done" /\ delivery = "failed" /\ saveOutcome = "ok" =>
            /\ alerts # <<>>
            /\ InForce(file)
            /\ KeysOfAlerts(alerts) \subseteq file.sent
            /\ new_sent_alerts \subseteq file.sent)
    /\ [](pc \in {"returned", "done"} /\ InForce(fileAtStart) /\ coins_config.ok =>
            KeysOfAlerts(alerts) \cap fileAtStart.sent = {})

\* the delivery failed after the keys of two alerts were written
C35_Witness ==
    /\ pc = "done"
    /\ ~dry_run
    /\ delivery = "failed"
    /\ saveOutcome = "ok"
    /\ Len(alerts) = 2
    /\ KeysOfAlerts(alerts) \subseteq file.sent
    /\ file # fileAtStart

-----------------------------------------------------------------------------
(* C36: equal effective prices *)

\* C36: when the drawdown candidate's effective price ath * (1 - R / 100)
\* equals the target candidate's target, the one alert returned for the coin is
\* the drawdown alert with the representative threshold
C36_TieGoesToDrawdown ==
    (EntryDone /\ QualifyingThresholds # {} /\ QualifyingTargets # {}
        /\ DrawdownEffective = TargetEffective) =>
        /\ Cardinality(AlertsOfEntry) = 1
        /\ \A i \in AlertsOfEntry :
              /\ alerts[i].type = "ath"
              /\ alerts[i].threshold = {SetMax(QualifyingThresholds)}

\* ATH 100 with threshold 30 and target 70 at price 70: both effective prices
\* are 70 and the drawdown alert is returned
C36_Witness ==
    /\ EntryDone
    /\ Crypto.current_price = 70
    /\ QualifyingThresholds = {30}
    /\ QualifyingTargets = {70}
    /\ DrawdownEffective = TargetEffective
    /\ Fired("ath")
    /\ ~Fired("price")

-----------------------------------------------------------------------------
(* C37: the dedup mapping of a cycle only grows *)

\* the keys of the qualifying thresholds and targets of the current entry
QualifyingKeys ==
    {<<Crypto.id, "ath", t>> : t \in QualifyingThresholds}
    \cup {<<Crypto.id, "price", p>> : p \in QualifyingTargets}

\* C37: from the start of the loop on, new_sent_alerts holds the loaded
\* mapping, which the loop never changes; every key added to it belongs to a
\* coin with an alert in the result; an entry adds the keys that qualify
\* against the loaded mapping when it has an alert and none otherwise; and a
\* cycle that ran through its snapshot has added a key if and only if it
\* returns an alert
C37_MappingOnlyGrows ==
    /\ [](coins_config.ok /\ current_data # <<>> /\ pc \notin {"idle", "fetch"} =>
            /\ Prior \subseteq new_sent_alerts
            /\ \A k \in new_sent_alerts \ Prior :
                  \E i \in DOMAIN alerts : alerts[i].crypto = Label(k[1]))
    /\ [](EntryDone =>
            (AddedKeys("ath") \cup AddedKeys("price")) =
                (IF AlertsOfEntry # {} THEN QualifyingKeys ELSE {}))
    /\ [](CycleComplete => (new_sent_alerts \ Prior # {} <=> alerts # <<>>))
    /\ [][(pc \in {"loop", "ath", "sleep", "price", "select"}
             /\ pc' \in {"loop", "ath", "sleep", "price", "select", "save"}) =>
             /\ sent_alerts' = sent_alerts
             /\ new_sent_alerts \subseteq new_sent_alerts']_vars

\* a cycle that started from a non-empty mapping returned an alert and added
\* keys to the mapping
C37_Witness ==
    /\ CycleComplete
    /\ Prior # {}
    /\ alerts # <<>>
    /\ Prior \subseteq new_sent_alerts
    /\ new_sent_alerts # Prior

-----------------------------------------------------------------------------
(* C38: the refresher rebuilds the range cache from scratch *)

\* C38: when update_all_52w_stats has ended, a cache file it wrote holds an
\* entry, stamped with today's date, for exactly the coins fetched successfully
\* in this run, whatever the file held before; and when no coin was fetched
\* successfully save_52w_stats was not called and the file is what it was when
\* the run started.  The file changes only in the save step.
C38_CacheRebuiltFromScratch ==
    /\ [](u_pc = "done" /\ statsSaveOutcome = "ok" =>
            /\ stats_file.status = "ok"
            /\ stats_file.last_updated = FormatDate(today)
            /\ \A i \in Ids :
                  IF i \in FetchedCoins
                  THEN /\ stats_file.coins[i].present
                       /\ stats_file.coins[i].updated_at = FormatDate(today)
                  ELSE stats_file.coins[i] = NoEntry)
    /\ [](u_pc = "done" =>
            /\ statsSaveOutcome = "none" <=> FetchedCoins = {}
            /\ statsSaveOutcome = "none" => stats_file = statsFileAtStart)
    /\ [][stats_file' # stats_file => (u_pc = "save" /\ statsSaveOutcome' # "none")]_vars

\* ethereum was in the cache and failed in both passes: the cache written by
\* the run holds bitcoin only
C38_Witness ==
    /\ u_pc = "done"
    /\ statsSaveOutcome = "ok"
    /\ statsFileAtStart.coins["ethereum"].present
    /\ \E j, k \in DOMAIN fetchLog :
          /\ fetchLog[j].coin_id = "ethereum" /\ fetchLog[j].pass = 1 /\ ~fetchLog[j].ok
          /\ fetchLog[k].coin_id = "ethereum" /\ fetchLog[k].pass = 2 /\ ~fetchLog[k].ok
    /\ stats_file.coins["bitcoin"].present
    /\ ~stats_file.coins["ethereum"].present

-----------------------------------------------------------------------------
(* C39: get_ath_price terminates *)

\* the last entry of g_log
LastEntry == g_log[Len(g_log)]

\* the request of the last allowed attempt was answered with the response
FinalAttemptGot(response) ==
    \E k \in RequestPositions :
        /\ g_log[k].attempt = g_call.max_retries - 1
        /\ g_log[k].response = response

\* C39: a call of get_ath_price makes at most max_retries requests, numbered
\* from 0, and every call returns: the body when a request succeeded, failure
\* otherwise.  After a 429 on the last attempt the call still waits
\* max_retries * 5 seconds before it returns failure; after a timeout on the
\* last attempt it returns failure at once.
C39_GetAthPriceTerminates ==
    /\ [](InAthCall =>
            /\ RequestsMade <= g_call.max_retries
            /\ g_call.max_retries <= DefaultMaxRetries
            /\ g_pc = "request" => (attempt < g_call.max_retries /\ RequestsMade = attempt))
    /\ [](InAthCall /\ g_pc = "returned" =>
            /\ g_result \in {"body", "None"}
            /\ g_result = "body" <=> LastEntry = Request(attempt, "ok")
            /\ FinalAttemptGot("http429") =>
                  /\ LastEntry = Slept(g_call.max_retries - 1, g_call.max_retries * BackoffUnit)
                  /\ g_result = "None"
            /\ FinalAttemptGot("timeout") =>
                  /\ LastEntry = Request(g_call.max_retries - 1, "timeout")
                  /\ g_result = "None")
    /\ (InAthCall /\ g_pc = "request") ~> (g_pc = "returned")

\* three requests answered 429: the call waited 5, 10 and 15 seconds and
\* returned failure
C39_Witness ==
    /\ InAthCall
    /\ g_pc = "returned"
    /\ g_result = "None"
    /\ g_log = <<Request(0, "http429"), Slept(0, 5), Request(1, "http429"), Slept(1, 10),
                 Request(2, "http429"), Slept(2, 15)>>

-----------------------------------------------------------------------------
(* C40: a cycle that cannot start *)

\* the run has made no lookup, no sleep, no write, no delivery, and returned or
\* built no alert
NoEffects ==
    /\ alerts = <<>>
    /\ potential_alerts = <<>>
    /\ athSeen = <<>>
    /\ sleepCalls = 0
    /\ saveCalls = 0
    /\ saveOutcome = "none"
    /\ file = fileAtStart
    /\ posts = 0
    /\ delivery = "none"
    /\ message = NoMessage
    /\ logged = <<>>
    /\ idx = 0

\* C40: a run of check_alerts whose coins configuration could not be loaded, or
\* whose bulk price fetch failed or returned an empty list, returns an empty
\* list and has no effect; and a live run without a webhook URL consists of
\* the one step in which main returns: it never reaches the fetch, has no
\* effect, and its dedup state is not even loaded
C40_NoStartNoEffects ==
    /\ []((pc \in {"returned", "done"} /\ ~no_webhook_return
            /\ (~coins_config.ok \/ current_data = <<>>)) => NoEffects)
    /\ [](no_webhook_return =>
            /\ pc = "done"
            /\ ~dry_run
            /\ current_data = <<>>
            /\ new_sent_alerts = {}
            /\ NoEffects)
    /\ [][no_webhook_return' => Terminated]_vars

\* a live run of a later date without a webhook URL has returned and left the
\* dedup-state file of the earlier run as it was
C40_Witness ==
    /\ no_webhook_return
    /\ pc = "done"
    /\ coins_config.ok
    /\ file.status = "ok"
    /\ file.sent # {}
    /\ file.date < today
    /\ file = fileAtStart

====
